---- MODULE Spec2Model ----
(***************************************************************************)
(* A model of gopdfrab: the PDF object graph resolver (document.go,        *)
(* resolver.go), structural equality of PDF values (types.go) and the      *)
(* PDF/A-1b verification run (verifier.go).                                 *)
(*                                                                         *)
(* A Go string is a sequence of byte codes where its bytes are inspected   *)
(* (hex strings, raw file regions) and a TLA+ string where it is only      *)
(* compared (names, dictionary keys, literal strings).                     *)
(*                                                                         *)
(* Go maps and slices have pointer identity.  Those built by the resolver  *)
(* are never written after they are shared, so a map or slice is modelled  *)
(* as an immutable value that carries its allocation in the field id: two  *)
(* occurrences with the same id are the same Go object.                    *)
(***************************************************************************)
EXTENDS Integers, Sequences, FiniteSets, TLC

VARIABLES
    doc,        \* the Document after Open: file regions, trailer, xrefTable
    pc,         \* position of the verification run inside verifyPdfA1b
    level,      \* the LevelType argument of the current Verify call
    issues,     \* the local slice issues of verifyPdfA1b
    graph,      \* the value ResolveGraph returned to verifyPdfA1b
    ctx,        \* the ValidationContext of the run
    result,     \* the Result returned by Verify
    fatal,      \* whether Verify returned a non-nil error
    trace,      \* history: the checks the run has executed, in order
    found,      \* history: every PDFError a check of the run has returned
    hx,         \* input and output of validateHexString (SpecHex)
    eq,         \* inputs and outputs of EqualPDFValue (SpecEq)
    un          \* input and output of one call of a single function

vars == <<doc, pc, level, issues, graph, ctx, result, fatal, trace, found, hx, eq, un>>

(***************************************************************************)
(* PDF values (types.go).                                                  *)
(***************************************************************************)
Nil == [t |-> "nil"]

PDFHexString(s) == [t |-> "PDFHexString", Value |-> s]
PDFString(s) == [t |-> "PDFString", Str |-> s]
PDFInteger(n) == [t |-> "PDFInteger", Int |-> n]
\* A float32 is <<n>> for the number n and NaN for a not-a-number.
NaN == <<>>
PDFReal(x) == [t |-> "PDFReal", Real |-> x]
\* va == vb on float32: a NaN differs from every value, itself included.
FloatEq(x, y) == x # NaN /\ y # NaN /\ x = y
PDFBoolean(b) == [t |-> "PDFBoolean", Bool |-> b]
PDFName(s) == [t |-> "PDFName", Name |-> s]
PDFArray(id, a) == [t |-> "PDFArray", id |-> id, a |-> a]
PDFDict(id, e) == [t |-> "PDFDict", id |-> id, e |-> e]
PDFRef(n, g) == [t |-> "PDFRef", ObjNum |-> n, GenNum |-> g]

\* type PDFStreamDict = PDFDict: an alias, so the conversion PDFStreamDict(m)
\* yields a value whose dynamic type is PDFDict.
PDFStreamDict(m) == [m EXCEPT !.t = "PDFDict"]

\* v.(PDFStreamDict): the type assertion succeeds on the type PDFStreamDict names.
IsPDFStreamDict(v) == v.t = PDFStreamDict(PDFDict(<<>>, <<>>)).t

IsPDFDict(v) == v.t = "PDFDict"

\* m[k] of a Go map: the zero value nil when the key is absent.
Get(m, k) == IF k \in DOMAIN m.e THEN m.e[k] ELSE Nil

\* The set of keys of m as a function with one entry changed or added.
Put(e, k, v) == [x \in DOMAIN e \cup {k} |-> IF x = k THEN v ELSE e[x]]

EmptyMap == [x \in {} |-> Nil]

\* Op applied to the value of x, which is computed once.
With(x, Op(_)) == CHOOSE y \in {Op(v) : v \in {x}} : TRUE

RECURSIVE EqualSeq(_, _, _)
RECURSIVE EqualPDFValue(_, _)

EqualPDFValue(a, b) ==
    IF a = Nil \/ b = Nil THEN a = Nil /\ b = Nil
    ELSE CASE a.t = "PDFHexString" -> b.t = "PDFHexString" /\ a.Value = b.Value
           [] a.t = "PDFString" -> b.t = "PDFString" /\ a.Str = b.Str
           [] a.t = "PDFInteger" -> b.t = "PDFInteger" /\ a.Int = b.Int
           [] a.t = "PDFReal" -> b.t = "PDFReal" /\ FloatEq(a.Real, b.Real)
           [] a.t = "PDFBoolean" -> b.t = "PDFBoolean" /\ a.Bool = b.Bool
           [] a.t = "PDFName" -> b.t = "PDFName" /\ a.Name = b.Name
           [] a.t = "PDFRef" ->
                b.t = "PDFRef" /\ a.ObjNum = b.ObjNum /\ a.GenNum = b.GenNum
           [] a.t = "PDFArray" ->
                b.t = "PDFArray" /\ Len(a.a) = Len(b.a) /\ EqualSeq(a.a, b.a, 1)
           [] a.t = "PDFDict" ->
                /\ b.t = "PDFDict"
                /\ Cardinality(DOMAIN a.e) = Cardinality(DOMAIN b.e)
                /\ \A k \in DOMAIN a.e :
                      k \in DOMAIN b.e /\ EqualPDFValue(a.e[k], b.e[k])
           [] OTHER -> FALSE

EqualSeq(x, y, i) ==
    IF i > Len(x) THEN TRUE
    ELSE EqualPDFValue(x[i], y[i]) /\ EqualSeq(x, y, i + 1)

(***************************************************************************)
(* The Document (document.go:14-21).  The file is kept as the regions the  *)
(* program reads: head is its first bytes, tail its last bytes, xref the   *)
(* bytes at xrefOffset, and file maps a byte offset to the indirect object *)
(* the lexer and parser read there:                                        *)
(*   kind "dict"    N G obj << ... >> endobj           (v: the dictionary) *)
(*   kind "stream"  N G obj << ... >> stream ...       (v: the dictionary) *)
(*   kind "array"   N G obj [ ... ] endobj             (v: the array)      *)
(*   kind "token"   N G obj <any other token>          (tok: its text)     *)
(*   kind "garbage" bytes that do not start with N G obj                   *)
(* Every dictionary and array of the file carries an id <<n, k>> that is   *)
(* unique in the file (n: the object it is part of, 0 for the trailer).    *)
(***************************************************************************)
Ok(v) == [ok |-> TRUE, v |-> v, err |-> ""]
Fail(e) == [ok |-> FALSE, v |-> Nil, err |-> e]

\* The keys of a map in the order ord visits them.  Go leaves the iteration
\* order of a map unspecified; ord is the order one range statement takes.
KeySeq(e, ord) == SelectSeq(ord, LAMBDA k : k \in DOMAIN e)

\* strconv.Atoi on the decimal strings the model uses.
Digits == <<"0", "1", "2", "3", "4", "5", "6", "7", "8", "9">>
Atoi(s) ==
    IF \E i \in 1..Len(Digits) : Digits[i] = s
    THEN [ok |-> TRUE, n |-> (CHOOSE i \in 1..Len(Digits) : Digits[i] = s) - 1]
    ELSE [ok |-> FALSE, n |-> 0]

RECURSIVE ResolveObject(_, _, _)
RECURSIVE ResolveObjectEntries(_, _, _, _, _)
RECURSIVE ResolveObjectElems(_, _, _, _, _)
RECURSIVE ResolveReference(_, _, _)

\* validateStream: the stream needs a Length that resolves to an integer (or
\* to a string holding one), Length readable bytes and the keyword endstream.
ValidateStream(d, m, body, ord) ==
    IF "Length" \notin DOMAIN m.e THEN Fail("stream missing Length")
    ELSE LET lengthObj == ResolveObject(d, m.e["Length"], ord) IN
         IF ~lengthObj.ok THEN Fail("could not resolve stream Length")
         ELSE IF lengthObj.v.t = "PDFString" /\ ~Atoi(lengthObj.v.Str).ok
              THEN Fail("could not parse stream Length as integer")
         ELSE IF lengthObj.v.t \notin {"PDFString", "PDFInteger"}
              THEN Fail("could not parse stream Length")
         ELSE IF ~body.endstream THEN Fail("expected endstream")
         ELSE Ok(m)

\* resolveReference that accepts an object number the xref table does not hold.
ResolveReferenceLenient(d, ref, ord) ==
    IF ref.ObjNum \notin DOMAIN d.xrefTable
    THEN Ok(PDFString(""))
    ELSE LET body == d.file[d.xrefTable[ref.ObjNum]] IN
         CASE body.kind = "garbage" -> Ok(PDFString(""))
           [] body.kind \in {"dict", "stream"} ->
                Ok(PDFDict(body.v.id, Put(body.v.e, "_ref", ref)))
           [] body.kind = "array" -> Ok(body.v)
           [] OTHER -> Ok(PDFString(body.tok))

ResolveReference(d, ref, ord) ==
    IF ref.ObjNum \notin DOMAIN d.xrefTable
    THEN Fail("object not found in xref table")
    ELSE LET body == d.file[d.xrefTable[ref.ObjNum]] IN
         CASE body.kind = "garbage" -> Fail("failed to parse reference")
           [] body.kind \in {"dict", "stream"} ->
                LET m == PDFDict(body.v.id, Put(body.v.e, "_ref", ref)) IN
                IF body.kind = "stream"
                THEN LET s == ValidateStream(d, m, body, ord) IN
                     IF s.ok THEN Ok(PDFStreamDict(m)) ELSE s
                ELSE Ok(m)
           [] body.kind = "array" -> Ok(body.v)
           [] OTHER -> Ok(PDFString(body.tok))

\* resolveObject builds new maps and slices (id extended by 1); nothing
\* compares its results by pointer.
ResolveObject(d, obj, ord) ==
    CASE obj.t = "PDFRef" -> ResolveReference(d, obj, ord)
      [] obj.t = "PDFDict" ->
           ResolveObjectEntries(d, obj, KeySeq(obj.e, ord), EmptyMap, ord)
      [] obj.t = "PDFArray" -> ResolveObjectElems(d, obj, 1, <<>>, ord)
      [] OTHER -> Ok(obj)

ResolveObjectEntries(d, obj, ks, out, ord) ==
    IF ks = <<>> THEN Ok(PDFDict(Append(obj.id, 1), out))
    ELSE LET r == ResolveObject(d, obj.e[Head(ks)], ord) IN
         IF ~r.ok THEN r
         ELSE ResolveObjectEntries(d, obj, Tail(ks), Put(out, Head(ks), r.v), ord)

ResolveObjectElems(d, obj, i, out, ord) ==
    IF i > Len(obj.a) THEN Ok(PDFArray(Append(obj.id, 1), out))
    ELSE LET r == ResolveObject(d, obj.a[i], ord) IN
         IF ~r.ok THEN r
         ELSE ResolveObjectElems(d, obj, i + 1, Append(out, r.v), ord)

(***************************************************************************)
(* resolveAll (document.go:255-329).  st is the state one ResolveGraph run *)
(* threads through the recursion: visited, the map from object number to   *)
(* resolved value, and calls, the object numbers handed to                 *)
(* resolveReference so far.  A map or slice resolveAll makes is new: its   *)
(* id is the id of the value it was made from, extended by 0.              *)
(***************************************************************************)
RECURSIVE ResolveAll(_, _, _, _)
RECURSIVE ResolveAllEntries(_, _, _, _, _, _)
RECURSIVE ResolveAllElems(_, _, _, _, _, _)

Done(v, st) == [ok |-> TRUE, v |-> v, err |-> "", st |-> st]
Abort(e, st) == [ok |-> FALSE, v |-> Nil, err |-> e, st |-> st]

\* The Ref case with the cache entry dropped once the object is resolved.
ResolveAllRefForgetting(d, v, st, ord) ==
    IF v.ObjNum \in DOMAIN st.visited
    THEN Done(st.visited[v.ObjNum], st)
    ELSE LET indirect == ResolveReference(d, v, ord)
             called == [st EXCEPT !.calls = Append(@, v.ObjNum)]
         IN  IF ~indirect.ok THEN Abort(indirect.err, called)
             ELSE LET marked == [called EXCEPT
                                   !.visited = Put(@, v.ObjNum, indirect.v)]
                      resolved == ResolveAll(d, indirect.v, marked, ord)
                  IN  IF ~resolved.ok THEN resolved
                      ELSE Done(resolved.v,
                                [resolved.st EXCEPT
                                   !.visited = [k \in DOMAIN @ \ {v.ObjNum} |-> @[k]]])

\* The Ref case of resolveAll.
ResolveAllRef(d, v, st, ord) ==
    IF v.ObjNum \in DOMAIN st.visited
    THEN Done(st.visited[v.ObjNum], st)
    ELSE LET indirect == ResolveReference(d, v, ord)
             called == [st EXCEPT !.calls = Append(@, v.ObjNum)]
         IN  IF ~indirect.ok THEN Abort(indirect.err, called)
             ELSE LET marked == [called EXCEPT
                                   !.visited = Put(@, v.ObjNum, indirect.v)]
                      resolved == ResolveAll(d, indirect.v, marked, ord)
                  IN  IF ~resolved.ok THEN resolved
                      ELSE Done(resolved.v,
                                [resolved.st EXCEPT
                                   !.visited = Put(@, v.ObjNum, resolved.v)])

ResolveAll(d, obj, st, ord) ==
    CASE obj.t = "PDFRef" -> ResolveAllRef(d, obj, st, ord)
      [] obj.t = "PDFDict" ->
           ResolveAllEntries(d, obj, KeySeq(obj.e, ord), EmptyMap, st, ord)
      [] obj.t = "PDFArray" -> ResolveAllElems(d, obj, 1, <<>>, st, ord)
      [] OTHER -> Done(obj, st)

ResolveAllEntries(d, obj, ks, out, st, ord) ==
    IF ks = <<>> THEN Done(PDFDict(Append(obj.id, 0), out), st)
    ELSE LET r == ResolveAll(d, obj.e[Head(ks)], st, ord) IN
         IF ~r.ok THEN r
         ELSE ResolveAllEntries(d, obj, Tail(ks), Put(out, Head(ks), r.v),
                                r.st, ord)

ResolveAllElems(d, obj, i, out, st, ord) ==
    IF i > Len(obj.a) THEN Done(PDFArray(Append(obj.id, 0), out), st)
    ELSE LET r == ResolveAll(d, obj.a[i], st, ord) IN
         IF ~r.ok THEN r
         ELSE ResolveAllElems(d, obj, i + 1, Append(out, r.v), r.st, ord)

NewVisited == [visited |-> EmptyMap, calls |-> <<>>]

\* ResolveGraph (document.go:201-206): a fresh visited map for every run.
ResolveGraph(d, ord) == ResolveAll(d, d.trailer, NewVisited, ord)

(***************************************************************************)
(* PDFError and the byte cursor (cursor.go).                                *)
(***************************************************************************)
\* One underlying error: its message and the value formatted into it.
E(msg, arg) == [msg |-> msg, arg |-> arg]

\* A PDFError literal; objectRef is Nil when the Go literal leaves it out.
PDFError(clause, subclause, errs, page) ==
    [clause |-> clause, subclause |-> subclause, errs |-> errs, page |-> page,
     objectRef |-> Nil]

CR == 13
LF == 10
Percent == 37

\* The smallest index >= i (0-based) of a CR or LF in data, Len(data) if none.
LineEnd(data, i) ==
    LET ends == {j \in i..(Len(data) - 1) : data[j + 1] = CR \/ data[j + 1] = LF}
    IN  IF ends = {} THEN Len(data)
        ELSE CHOOSE j \in ends : \A k \in ends : j <= k

\* Cursor.ReadLine on a cursor at pos (0-based) over data.  panic: the index
\* expressions c.data[c.pos] after the scan are out of range.
ReadLine(data, pos) ==
    IF pos >= Len(data)
    THEN [line |-> <<>>, ok |-> FALSE, pos |-> pos, panic |-> FALSE]
    ELSE LET end == LineEnd(data, pos)
             line == SubSeq(data, pos + 1, end)
         IN  IF end >= Len(data)
             THEN [line |-> line, ok |-> TRUE, pos |-> end, panic |-> TRUE]
             ELSE IF data[end + 1] = CR
             THEN IF end + 1 >= Len(data)
                  THEN [line |-> line, ok |-> TRUE, pos |-> end + 1,
                        panic |-> TRUE]
                  ELSE IF data[end + 2] = LF
                  THEN [line |-> line, ok |-> TRUE, pos |-> end + 2,
                        panic |-> FALSE]
                  ELSE [line |-> line, ok |-> TRUE, pos |-> end + 1,
                        panic |-> FALSE]
             ELSE [line |-> line, ok |-> TRUE, pos |-> end + 1, panic |-> FALSE]

\* The first n elements of s (all of s when it is shorter): buf[:n] after ReadAt.
Take(s, n) == SubSeq(s, 1, IF Len(s) < n THEN Len(s) ELSE n)

\* What a check hands back: its PDFErrors, or a panic that unwinds Verify.
Checked(errs) == [errs |-> errs, panic |-> FALSE]
Panicked == [errs |-> <<>>, panic |-> TRUE]

(***************************************************************************)
(* 6.1.2 verifyFileHeader (verifier.go:122-184).                            *)
(***************************************************************************)
HeaderWindow == 128
MinCommentLen == 5
MaxAscii == 127

\* One underlying error for each byte of comment[1:] that is <= 127.
LowBytes(comment, i) ==
    LET low == SelectSeq(SubSeq(comment, i, Len(comment)),
                         LAMBDA b : b <= MaxAscii)
    IN  [j \in 1..Len(low) |->
            E("byte value in comment line must be > 127", low[j])]

BadLine(l) == ~l.ok \/ Len(l.line) = 0 \/ l.line[1] # Percent

\* verifyFileHeader with the order of its two length and content tests exchanged.
VerifyFileHeaderSwapped(d) ==
    LET data == Take(d.head, HeaderWindow)
        header == ReadLine(data, 0)
        comment == ReadLine(data, header.pos)
        e1 == IF BadLine(header)
              THEN <<PDFError("6.1.2", 1, <<E("invalid PDF header", 0)>>, 1)>>
              ELSE <<>>
    IN  IF header.panic \/ comment.panic THEN Panicked
        ELSE IF BadLine(comment)
        THEN Checked(e1 \o <<PDFError("6.1.2", 2,
                 <<E("header must be followed by comment", 0)>>, 1)>>)
        ELSE LET subErrs == LowBytes(comment.line, 2)
                 e4 == IF Len(subErrs) > 0
                       THEN <<PDFError("6.1.2", 4, subErrs, 1)>> ELSE <<>>
                 e3 == IF Len(comment.line) < MinCommentLen
                       THEN <<PDFError("6.1.2", 3,
                               <<E("comment line must consist of at least 5 characters",
                                   Len(comment.line))>>, 1)>>
                       ELSE <<>>
             IN  Checked(e1 \o e4 \o e3)

VerifyFileHeader(d) ==
    LET data == Take(d.head, HeaderWindow)
        header == ReadLine(data, 0)
        comment == ReadLine(data, header.pos)
        e1 == IF BadLine(header)
              THEN <<PDFError("6.1.2", 1, <<E("invalid PDF header", 0)>>, 1)>>
              ELSE <<>>
    IN  IF header.panic \/ comment.panic THEN Panicked
        ELSE IF BadLine(comment)
        THEN Checked(e1 \o <<PDFError("6.1.2", 2,
                 <<E("header must be followed by comment", 0)>>, 1)>>)
        ELSE LET e3 == IF Len(comment.line) < MinCommentLen
                       THEN <<PDFError("6.1.2", 3,
                               <<E("comment line must consist of at least 5 characters",
                                   Len(comment.line))>>, 1)>>
                       ELSE <<>>
                 subErrs == LowBytes(comment.line, 2)
                 e4 == IF Len(subErrs) > 0
                       THEN <<PDFError("6.1.2", 4, subErrs, 1)>> ELSE <<>>
             IN  Checked(e1 \o e3 \o e4)

(***************************************************************************)
(* 6.1.3 verifyFileTrailer (verifier.go:186-241).  d.tail holds the last   *)
(* bytes of the file; a ReadAt at or past the end, or before the start,    *)
(* leaves the zero byte in buf.                                            *)
(***************************************************************************)
EOFWindow == 10
EOFMarker == <<37, 37, 69, 79, 70>>

\* buf[0] after d.file.ReadAt(buf, size-i).
ByteBeforeEnd(tail, i) ==
    IF i >= 1 /\ i <= Len(tail) THEN tail[Len(tail) - i + 1] ELSE 0

\* eof after the iteration i of the loop: the bytes read so far, last read first.
EofBuffer(tail, i) == [j \in 1..(i + 1) |-> ByteBeforeEnd(tail, i + 1 - j)]

HasPrefix(s, p) == Len(s) >= Len(p) /\ SubSeq(s, 1, Len(p)) = p

EOFFound(tail) ==
    \E i \in 0..(EOFWindow - 1) : HasPrefix(EofBuffer(tail, i), EOFMarker)

VerifyFileTrailer(d) ==
    LET e1 == IF Get(d.trailer, "ID") = Nil
              THEN <<PDFError("6.1.3", 1,
                      <<E("trailer does not contain the required ID keyword", 0)>>, 0)>>
              ELSE <<>>
        e2 == IF Get(d.trailer, "Encrypt") # Nil
              THEN <<PDFError("6.1.3", 2,
                      <<E("trailer contains the forbidden Encrypt keyword", 0)>>, 0)>>
              ELSE <<>>
        e3 == IF ~EOFFound(d.tail)
              THEN <<PDFError("6.1.3", 3, <<E("no EOF marker found", 0)>>, 0)>>
              ELSE <<>>
    IN  Checked(e1 \o e2 \o e3)

(***************************************************************************)
(* 6.1.4 verifyCrossReferenceTable (verifier.go:243-294).                   *)
(***************************************************************************)
XrefWindow == 128
XrefKeyword == <<120, 114, 101, 102>>

\* unicode.IsSpace on an ASCII byte, as strings.Fields applies it.
IsSpace(b) == b \in {9, 10, 11, 12, 13, 32}

RECURSIVE CountFields(_, _, _)
\* len(strings.Fields(s)): the maximal runs of non-space bytes from index i on.
CountFields(s, i, inField) ==
    IF i > Len(s) THEN 0
    ELSE IF IsSpace(s[i]) THEN CountFields(s, i + 1, FALSE)
    ELSE (IF inField THEN 0 ELSE 1) + CountFields(s, i + 1, TRUE)

VerifyCrossReferenceTable(d) ==
    LET data == Take(d.xref, XrefWindow)
        xRef == ReadLine(data, 0)
        xRefHeader == ReadLine(data, xRef.pos)
        e1 == IF ~xRef.ok \/ Len(xRef.line) = 0 \/ xRef.line # XrefKeyword
              THEN <<PDFError("6.1.4", 1, <<E("expected 'xref' keyword", 0)>>, 0)>>
              ELSE <<>>
    IN  IF xRef.panic \/ xRefHeader.panic THEN Panicked
        ELSE IF ~xRefHeader.ok \/ Len(xRefHeader.line) = 0
        THEN Checked(e1 \o <<PDFError("6.1.4", 2,
                 <<E("expected cross reference subsection header after xref keyword",
                     0)>>, 0)>>)
        ELSE LET e3 == IF CountFields(xRefHeader.line, 1, FALSE) # 2
                       THEN <<PDFError("6.1.4", 3,
                               <<E("cross reference subsection header should consist of two parts",
                                   0)>>, 0)>>
                       ELSE <<>>
             IN  Checked(e1 \o e3)

(***************************************************************************)
(* resolvePath and ResolveGraphByPath (document.go:191-252).                *)
(***************************************************************************)
RECURSIVE ResolvePathFrom(_, _, _, _, _)
\* The loop of resolvePath from the path segment i on, current being the node.
ResolvePathFrom(d, current, path, i, ord) ==
    IF i > Len(path) THEN ResolveObject(d, current, ord)
    ELSE LET cur == ResolveObject(d, current, ord) IN
         IF ~cur.ok THEN cur
         ELSE IF cur.v.t = "PDFArray"
         THEN LET idx == Atoi(path[i]) IN
              IF ~idx.ok THEN Ok(cur.v)
              ELSE IF idx.n < 0 \/ idx.n >= Len(cur.v.a)
              THEN Fail("array index out of range")
              ELSE ResolvePathFrom(d, cur.v.a[idx.n + 1], path, i + 1, ord)
         ELSE IF cur.v.t = "PDFDict"
         THEN IF path[i] \notin DOMAIN cur.v.e
              THEN Fail("key not found in dictionary")
              ELSE ResolvePathFrom(d, cur.v.e[path[i]], path, i + 1, ord)
         ELSE Ok(cur.v)

ResolvePath(d, node, path, ord) ==
    LET current == ResolveObject(d, node, ord) IN
    IF ~current.ok THEN current
    ELSE ResolvePathFrom(d, current.v, path, 1, ord)

ResolveGraphByPath(d, path, ord) ==
    IF Len(path) = 0 THEN Fail("path cannot be empty")
    ELSE ResolvePath(d, d.trailer, path, ord)

(***************************************************************************)
(* 6.1.5 GetMetadata (document.go:156-175) and                              *)
(* verifyDocumentInformationDictionary (verifier.go:296-355).               *)
(***************************************************************************)
\* GetMetadata: v is the map from the keys of Info that hold a literal string
\* to that string.
GetMetadata(d, ord) ==
    LET value == ResolveGraphByPath(d, <<"Info">>, ord) IN
    IF ~value.ok THEN value
    ELSE IF ~IsPDFDict(value.v) THEN Fail("information object is not a dictionary")
    ELSE Ok([k \in {x \in DOMAIN value.v.e : value.v.e[x].t = "PDFString"} |->
                value.v.e[k].Str])

allowedFields ==
    {"Title", "Author", "Subject", "Keywords", "Creator", "Producer",
     "CreationDate", "ModDate", "Trapped"}

RECURSIVE DisallowedErrs(_, _)
DisallowedErrs(metadata, ks) ==
    IF ks = <<>> THEN <<>>
    ELSE (IF Head(ks) \notin allowedFields
          THEN <<E("disallowed key in information dictionary", 0)>> ELSE <<>>)
         \o DisallowedErrs(metadata, Tail(ks))

RECURSIVE EmptyErrs(_, _)
EmptyErrs(metadata, ks) ==
    IF ks = <<>> THEN <<>>
    ELSE (IF metadata[Head(ks)] = ""
          THEN <<E("empty value in information dictionary", 0)>> ELSE <<>>)
         \o EmptyErrs(metadata, Tail(ks))

\* verifyDocumentInformationDictionary leaving its loop after the first entry.
VerifyDocumentInformationDictionaryFirstEntry(d, ord) ==
    IF Get(d.trailer, "Info") = Nil THEN Checked(<<>>)
    ELSE LET metadata == GetMetadata(d, ord) IN
         IF ~metadata.ok
         THEN Checked(<<PDFError("6.1.5", 1,
                  <<E("failed to get document information dictionary", 0)>>, 0)>>)
         ELSE LET ks == Take(KeySeq(metadata.v, ord), 1)
                  disallowedErrs == DisallowedErrs(metadata.v, ks)
                  emptyErrs == EmptyErrs(metadata.v, ks)
              IN  Checked((IF Len(disallowedErrs) > 0
                           THEN <<PDFError("6.1.5", 2, disallowedErrs, 0)>>
                           ELSE <<>>)
                          \o (IF Len(emptyErrs) > 0
                              THEN <<PDFError("6.1.5", 3, emptyErrs, 0)>>
                              ELSE <<>>))

VerifyDocumentInformationDictionary(d, ord) ==
    IF Get(d.trailer, "Info") = Nil THEN Checked(<<>>)
    ELSE LET metadata == GetMetadata(d, ord) IN
         IF ~metadata.ok
         THEN Checked(<<PDFError("6.1.5", 1,
                  <<E("failed to get document information dictionary", 0)>>, 0)>>)
         ELSE LET ks == KeySeq(metadata.v, ord)
                  disallowedErrs == DisallowedErrs(metadata.v, ks)
                  emptyErrs == EmptyErrs(metadata.v, ks)
              IN  Checked((IF Len(disallowedErrs) > 0
                           THEN <<PDFError("6.1.5", 2, disallowedErrs, 0)>>
                           ELSE <<>>)
                          \o (IF Len(emptyErrs) > 0
                              THEN <<PDFError("6.1.5", 3, emptyErrs, 0)>>
                              ELSE <<>>))

(***************************************************************************)
(* 6.1.6 / 6.1.7 verifyDocument and its validators (verifier.go:357-489),   *)
(* newError and newErrors.                                                  *)
(***************************************************************************)
\* newErrors: the PDFError carries the current page of the context and, when
\* obj is a dictionary whose _ref is a PDFRef, that reference.
newErrors(currentPage, obj, clause, subclause, errs) ==
    [clause |-> clause, subclause |-> subclause, errs |-> errs,
     page |-> currentPage,
     objectRef |-> IF IsPDFDict(obj) /\ Get(obj, "_ref").t = "PDFRef"
                   THEN Get(obj, "_ref") ELSE Nil]

newError(currentPage, obj, clause, subclause, msg) ==
    newErrors(currentPage, obj, clause, subclause, <<E(msg, 0)>>)

isHexDigit(ch) ==
    (ch >= 48 /\ ch <= 57) \/ (ch >= 65 /\ ch <= 70) \/ (ch >= 97 /\ ch <= 102)

isWhitespace(ch) == ch \in {0, 9, 10, 12, 13, 32}

RECURSIVE HexErrs(_, _)
\* hexErrs after the loop: one error for each byte that is neither white
\* space nor a hex digit.
HexErrs(hex, i) ==
    IF i > Len(hex) THEN <<>>
    ELSE (IF ~isWhitespace(hex[i]) /\ ~isHexDigit(hex[i])
          THEN <<E("contains non-hex character", hex[i])>> ELSE <<>>)
         \o HexErrs(hex, i + 1)

RECURSIVE HexCount(_, _)
\* hexCount after the loop: the bytes that are not white space.
HexCount(hex, i) ==
    IF i > Len(hex) THEN 0
    ELSE (IF isWhitespace(hex[i]) THEN 0 ELSE 1) + HexCount(hex, i + 1)

RECURSIVE HexDigitCount(_, _)
\* The bytes that are hex digits.
HexDigitCount(hex, i) ==
    IF i > Len(hex) THEN 0
    ELSE (IF isHexDigit(hex[i]) THEN 1 ELSE 0) + HexDigitCount(hex, i + 1)

\* validateHexString that counts only the valid hex digits toward the parity.
ValidateHexStringValidOnly(v, currentPage) ==
    LET hexErrs == HexErrs(v.Value, 1) IN
    (IF Len(hexErrs) > 0
     THEN <<newErrors(currentPage, v, "6.1.6", 1, hexErrs)>> ELSE <<>>)
    \o (IF HexDigitCount(v.Value, 1) % 2 # 0
        THEN <<newError(currentPage, v, "6.1.6", 2,
                        "contains an odd number of hex chars")>>
        ELSE <<>>)

ValidateHexString(v, currentPage) ==
    LET hexErrs == HexErrs(v.Value, 1)
        hexCount == HexCount(v.Value, 1)
    IN  (IF Len(hexErrs) > 0
         THEN <<newErrors(currentPage, v, "6.1.6", 1, hexErrs)>> ELSE <<>>)
        \o (IF hexCount % 2 # 0
            THEN <<newError(currentPage, v, "6.1.6", 2,
                            "contains an odd number of hex chars")>>
            ELSE <<>>)

\* validateStreamObject that returns at the first forbidden key it finds.
ValidateStreamObjectFirstOnly(v, currentPage) ==
    IF Get(v, "F") # Nil
    THEN <<newError(currentPage, v, "6.1.7", 1,
                    "stream object contains invalid key F")>>
    ELSE IF Get(v, "FFilter") # Nil
    THEN <<newError(currentPage, v, "6.1.7", 2,
                    "stream object contains invalid key FFilter")>>
    ELSE IF Get(v, "FDecodeParams") # Nil
    THEN <<newError(currentPage, v, "6.1.7", 3,
                    "stream object contains invalid key FDecodeParams")>>
    ELSE <<>>

ValidateStreamObject(v, currentPage) ==
    (IF Get(v, "F") # Nil
     THEN <<newError(currentPage, v, "6.1.7", 1,
                     "stream object contains invalid key F")>>
     ELSE <<>>)
    \o (IF Get(v, "FFilter") # Nil
        THEN <<newError(currentPage, v, "6.1.7", 2,
                        "stream object contains invalid key FFilter")>>
        ELSE <<>>)
    \o (IF Get(v, "FDecodeParams") # Nil
        THEN <<newError(currentPage, v, "6.1.7", 3,
                        "stream object contains invalid key FDecodeParams")>>
        ELSE <<>>)

\* ctx.PageIndex[n]: 0 when the object number has no entry.
PageOf(pageIndex, n) == IF n \in DOMAIN pageIndex THEN pageIndex[n] ELSE 0

RECURSIVE Walk(_, _, _, _)
RECURSIVE WalkAll(_, _, _, _)

\* walk: w holds the visited set (pointers, here ids), errs and
\* ctx.CurrentPage as the closure has left them.
Walk(node, w, pageIndex, ord) ==
    CASE node.t = "PDFDict" ->
           IF node.id \in w.visited THEN w
           ELSE LET w1 == [w EXCEPT !.visited = @ \cup {node.id}]
                    isPage == /\ Get(node, "Type").t = "PDFName"
                              /\ Get(node, "Type").Name = "Page"
                              /\ Get(node, "_ref").t = "PDFRef"
                    w2 == IF isPage
                          THEN [w1 EXCEPT !.CurrentPage =
                                   PageOf(pageIndex, Get(node, "_ref").ObjNum)]
                          ELSE w1
                    w3 == [w2 EXCEPT !.errs =
                              @ \o ValidateStreamObject(node, w2.CurrentPage)]
                    ks == KeySeq(node.e, ord)
                IN  WalkAll([i \in 1..Len(ks) |-> node.e[ks[i]]], w3,
                            pageIndex, ord)
      [] node.t = "PDFArray" ->
           IF node.id \in w.visited THEN w
           ELSE WalkAll(node.a, [w EXCEPT !.visited = @ \cup {node.id}],
                        pageIndex, ord)
      [] node.t = "PDFHexString" ->
           [w EXCEPT !.errs = @ \o ValidateHexString(node, w.CurrentPage)]
      [] OTHER -> w

WalkAll(nodes, w, pageIndex, ord) ==
    IF nodes = <<>> THEN w
    ELSE WalkAll(Tail(nodes), Walk(Head(nodes), w, pageIndex, ord),
                 pageIndex, ord)

\* verifyDocument: the walk starts with nothing visited and no errors, on
\* the current page of the context.
VerifyDocument(g, c, ord) ==
    Walk(g, [visited |-> {}, errs |-> <<>>, CurrentPage |-> c.CurrentPage],
         c.PageIndex, ord)

(***************************************************************************)
(* 6.1.12 verifyIndirectObjects, 6.1.13 verifyOptionalContent and           *)
(* 6.2.2 verifyOutputIntent (verifier.go:491-665).                          *)
(***************************************************************************)
VerifyIndirectObjects(d) == Checked(<<>>)

VerifyOptionalContent(d, ord) ==
    IF ResolveGraphByPath(d, <<"Root", "OCProperties">>, ord).ok
    THEN Checked(<<PDFError("6.1.13", 1,
             <<E("OCProperties not allowed in document catalog", 0)>>, 0)>>)
    ELSE Checked(<<>>)

ColourComponents == {1, 3, 4}

\* One iteration in which a wrong S ends the checks of the element.
IntentStepWrongSEnds(d, v, s, ord) ==
    LET add(sub, msg) ==
            [s EXCEPT !.errs = Append(@, PDFError("6.2.2", sub, <<E(msg, 0)>>, 0))]
    IN
    IF ~IsPDFDict(v) THEN add(2, "expected OutputIntent to be a PDFDict")
    ELSE IF Get(v, "S").t # "PDFName" THEN add(3, "expected S to be a PDFName")
    ELSE IF Get(v, "S").Name # "GTS_PDFA1"
    THEN add(4, "expected S was not GTS_PDFA1")
    ELSE IF Get(v, "OutputConditionIdentifier") = Nil
    THEN add(5, "OutputConditionIdentifier is required but was nil")
    ELSE s

\* One iteration of the loop over intents: s holds errs and indirectObject.
IntentStep(d, v, s, ord) ==
    LET add(sub, msg) ==
            [s EXCEPT !.errs = Append(@, PDFError("6.2.2", sub, <<E(msg, 0)>>, 0))]
    IN
    IF ~IsPDFDict(v) THEN add(2, "expected OutputIntent to be a PDFDict")
    ELSE IF Get(v, "S").t # "PDFName" THEN add(3, "expected S to be a PDFName")
    ELSE
    LET s4 == IF Get(v, "S").Name # "GTS_PDFA1"
              THEN add(4, "expected S was not GTS_PDFA1")
              ELSE s
        more(sub, msg) ==
            [s4 EXCEPT !.errs = Append(@, PDFError("6.2.2", sub, <<E(msg, 0)>>, 0))]
        destOutputProfile == Get(v, "DestOutputProfile")
    IN
    IF Get(v, "OutputConditionIdentifier") = Nil
    THEN more(5, "OutputConditionIdentifier is required but was nil")
    ELSE IF destOutputProfile = Nil THEN s4
    ELSE IF s4.indirectObject # Nil
            /\ ~EqualPDFValue(s4.indirectObject, destOutputProfile)
    THEN more(6, "expected DestOutputProfile to be the same indirect object")
    ELSE
    LET s6 == IF s4.indirectObject = Nil
              THEN [s4 EXCEPT !.indirectObject = destOutputProfile]
              ELSE s4
        keep(sub, msg) ==
            [s6 EXCEPT !.errs = Append(@, PDFError("6.2.2", sub, <<E(msg, 0)>>, 0))]
        profile == ResolveObject(d, destOutputProfile, ord)
    IN
    IF ~profile.ok THEN keep(7, "unable to resolve DestOutputProfile")
    ELSE IF ~IsPDFStreamDict(profile.v)
    THEN keep(8, "unexpected format for DestOutputProfile encountered")
    ELSE IF Get(profile.v, "N").t # "PDFInteger"
    THEN keep(9, "could not retrieve number of colour components N")
    ELSE IF Get(profile.v, "N").Int \notin ColourComponents
    THEN keep(10, "number of colour components N must be 1, 3, or 4")
    ELSE s6

RECURSIVE IntentLoop(_, _, _, _, _)
IntentLoop(d, intents, i, s, ord) ==
    IF i > Len(intents) THEN s
    ELSE IntentLoop(d, intents, i + 1, IntentStep(d, intents[i], s, ord), ord)

VerifyOutputIntent(d, ord) ==
    LET values == ResolveGraphByPath(d, <<"Root", "OutputIntents">>, ord) IN
    IF ~values.ok \/ values.v = Nil THEN Checked(<<>>)
    ELSE IF values.v.t # "PDFArray"
    THEN Checked(<<PDFError("6.2.2", 1,
             <<E("OutputIntents object is not an array", 0)>>, 0)>>)
    ELSE Checked(IntentLoop(d, values.v.a, 1,
                            [errs |-> <<>>, indirectObject |-> Nil], ord).errs)

(***************************************************************************)
(* buildPageIndex (called at verifier.go:87).  The page tree is walked      *)
(* from Root.Pages depth first, left to right over Kids; a Page leaf whose  *)
(* _ref is a PDFRef gets the next 1-based ordinal under its object number.  *)
(***************************************************************************)
RECURSIVE PageLeaves(_)
RECURSIVE KidsLeaves(_, _)

\* The object numbers of the page leaves below node, in document order.
PageLeaves(node) ==
    IF ~IsPDFDict(node) \/ Get(node, "Type").t # "PDFName" THEN <<>>
    ELSE IF Get(node, "Type").Name = "Page"
    THEN IF Get(node, "_ref").t = "PDFRef"
         THEN <<Get(node, "_ref").ObjNum>> ELSE <<>>
    ELSE IF Get(node, "Type").Name = "Pages" /\ Get(node, "Kids").t = "PDFArray"
    THEN KidsLeaves(Get(node, "Kids").a, 1)
    ELSE <<>>

KidsLeaves(kids, i) ==
    IF i > Len(kids) THEN <<>>
    ELSE PageLeaves(kids[i]) \o KidsLeaves(kids, i + 1)

BuildPageIndex(g) ==
    LET root == IF IsPDFDict(g) THEN Get(g, "Root") ELSE Nil
        pages == IF IsPDFDict(root) THEN Get(root, "Pages") ELSE Nil
        leaves == PageLeaves(pages)
    IN  Ok([n \in {leaves[i] : i \in 1..Len(leaves)} |->
               CHOOSE i \in 1..Len(leaves) :
                   leaves[i] = n /\ \A j \in 1..(i - 1) : leaves[j] # n])

(***************************************************************************)
(* The documents a run is checked on.  MaxObj indirect objects numbered     *)
(* 1..MaxObj are in the cross reference table; the object number MaxObj+1   *)
(* is not.  The trailer's Root is the reference 1 0 R.                      *)
(***************************************************************************)
MaxObj == 2

Succ(n) == (n % MaxObj) + 1
Missing == MaxObj + 1
Offset(n) == 64 * n

\* "%PDF-1.4" LF "%" 0xE2 0xE3 0xCF 0xD3 LF
GoodHead == <<37, 80, 68, 70, 45, 49, 46, 52, 10, 37, 226, 227, 207, 211, 10>>
\* "PDF-1.4" LF "%a" LF
BadHead == <<80, 68, 70, 45, 49, 46, 52, 10, 37, 97, 10>>
\* A first line that fills the whole window read by verifyFileHeader.
LongHead == [i \in 1..HeaderWindow |-> Percent]

\* "xref" LF "9" LF "%%EOF" LF, the end of "startxref 9 %%EOF".
GoodTail == <<120, 114, 101, 102, 10, 57, 10, 37, 37, 69, 79, 70, 10>>
\* "startxref" LF "9" LF, no marker.
BadTail == <<115, 116, 97, 114, 116, 120, 114, 101, 102, 10, 57, 10>>

\* "xref" LF "0 3" LF "0000000000 65535 f" LF
GoodXref == <<120, 114, 101, 102, 10, 48, 32, 51, 10, 48, 48, 48, 48, 48, 48,
              48, 48, 48, 48, 32, 54, 53, 53, 51, 53, 32, 102, 10>>
\* "xref" LF "0" LF "0000000000 65535 f" LF
BadXref == <<120, 114, 101, 102, 10, 48, 10, 48, 48, 48, 48, 48, 48,
             48, 48, 48, 48, 32, 54, 53, 53, 51, 53, 32, 102, 10>>

Shells ==
    {[head |-> GoodHead, tail |-> GoodTail, xref |-> GoodXref],
     [head |-> BadHead, tail |-> BadTail, xref |-> BadXref],
     [head |-> LongHead, tail |-> GoodTail, xref |-> GoodXref]}

Root == "Root" :> PDFRef(1, 0)
FileID == "ID" :> PDFArray(<<0, 1>>, <<PDFHexString(<<65, 66>>)>>)

Trailers ==
    {PDFDict(<<0, 0>>, Root @@ FileID),
     PDFDict(<<0, 0>>, Root @@ FileID @@
         ("Info" :> PDFDict(<<0, 2>>, "Title" :> PDFString("T")))),
     PDFDict(<<0, 0>>, Root @@ ("Encrypt" :> PDFName("x")) @@
         ("Info" :> PDFDict(<<0, 2>>,
                       ("Foo" :> PDFString("")) @@ ("Title" :> PDFString(""))))),
     PDFDict(<<0, 0>>, Root @@ ("Info" :> PDFRef(Missing, 0)))}

DictBody(n, e) ==
    [kind |-> "dict", v |-> PDFDict(<<n, 0>>, e), tok |-> "", endstream |-> FALSE]

\* What the file can hold at the offset of the object n.
Bodies(n) ==
    {DictBody(n, EmptyMap),
     DictBody(n, "Next" :> PDFRef(Succ(n), 0)),
     DictBody(n, "Next" :> PDFRef(Missing, 0)),
     DictBody(n, ("Type" :> PDFName("Page")) @@ ("F" :> PDFName("x")) @@
                 ("H" :> PDFHexString(<<65, 65, 65>>)) @@
                 ("Next" :> PDFRef(Succ(n), 0))),
     DictBody(n, ("Type" :> PDFName("Pages")) @@
                 ("Kids" :> PDFArray(<<n, 1>>, <<PDFRef(Succ(n), 0)>>))),
     DictBody(n, ("Pages" :> PDFRef(Succ(n), 0)) @@
                 ("OCProperties" :> PDFDict(<<n, 1>>, EmptyMap)) @@
                 ("OutputIntents" :> PDFArray(<<n, 2>>,
                     <<PDFDict(<<n, 3>>,
                           ("S" :> PDFName("GTS_PDFA1")) @@
                           ("OutputConditionIdentifier" :> PDFString("sRGB")) @@
                           ("DestOutputProfile" :> PDFRef(Succ(n), 0))),
                       PDFName("x")>>))),
     [kind |-> "array",
      v |-> PDFArray(<<n, 0>>, <<PDFRef(Succ(n), 0), PDFHexString(<<88>>)>>),
      tok |-> "", endstream |-> FALSE],
     [kind |-> "stream",
      v |-> PDFDict(<<n, 0>>, ("Length" :> PDFInteger(0)) @@ ("N" :> PDFInteger(3))),
      tok |-> "", endstream |-> TRUE],
     [kind |-> "garbage", v |-> Nil, tok |-> "", endstream |-> FALSE]}

Docs ==
    {[head |-> s.head, tail |-> s.tail, xref |-> s.xref, trailer |-> tr,
      xrefTable |-> [n \in 1..MaxObj |-> Offset(n)],
      file |-> [o \in {Offset(n) : n \in 1..MaxObj} |->
                   b[CHOOSE n \in 1..MaxObj : Offset(n) = o]]] :
        s \in Shells, tr \in Trailers,
        b \in {f \in [1..MaxObj -> UNION {Bodies(n) : n \in 1..MaxObj}] :
                  \A n \in 1..MaxObj : f[n] \in Bodies(n)}}

\* The keys of the dictionaries above, and two orders a range over a map can take.
AllKeys ==
    <<"_ref", "DestOutputProfile", "Encrypt", "F", "FDecodeParams",
      "FDecodeParms", "FFilter", "Foo", "H", "ID", "Info",
      "Kids", "Length", "N", "Next", "OCProperties", "OutputConditionIdentifier",
      "OutputIntents", "Pages", "Root", "S", "Title", "Type">>
Reverse(s) == [i \in 1..Len(s) |-> s[Len(s) + 1 - i]]
Orders == {AllKeys, Reverse(AllKeys)}

(***************************************************************************)
(* Verify and verifyPdfA1b (verifier.go:10-118), one step per statement     *)
(* group.  pc names the statement the run is about to execute.              *)
(***************************************************************************)
Undefined == 0
A1_B == 1
MaxLevel == 2
Levels == 0..MaxLevel

Result(t, valid, iss) == [Type |-> t, Valid |-> valid, Issues |-> iss]
NoResult == [Type |-> Undefined, Valid |-> FALSE, Issues |-> <<>>]
NoContext == [PageIndex |-> EmptyMap, CurrentPage |-> 0, errs |-> <<>>]

\* The checks of verifyPdfA1b, in the order of its statements.
CheckOrder ==
    <<"verifyFileHeader", "verifyFileTrailer", "verifyCrossReferenceTable",
      "verifyDocumentInformationDictionary", "verifyDocument",
      "verifyIndirectObjects", "verifyOptionalContent", "verifyOutputIntent">>

\* The single PDFError verifyPdfA1b returns when the graph or the page index
\* cannot be built.
ResolutionError(err) == PDFError("6.1.6", 0, <<E(err, 0)>>, 0)

\* errs = check(); if errs != nil { issues = append(issues, errs...) }
RunCheck(name, r, next) ==
    IF r.panic
    THEN /\ pc' = "panic"
         /\ UNCHANGED <<issues, trace, found>>
    ELSE /\ pc' = next
         /\ issues' = issues \o r.errs
         /\ trace' = Append(trace, name)
         /\ found' = found \o r.errs

\* Verify without the test for the Undefined level.
VerifyUnguarded(t) ==
    /\ pc \in {"idle", "done"}
    /\ level' = t
    /\ issues' = <<>>
    /\ graph' = Nil
    /\ ctx' = NoContext
    /\ trace' = <<>>
    /\ found' = <<>>
    /\ IF t = A1_B \/ t = Undefined
       THEN /\ result' = NoResult
            /\ fatal' = FALSE
            /\ pc' = "header"
       ELSE /\ result' = Result(t, TRUE, <<>>)
            /\ fatal' = FALSE
            /\ pc' = "done"
    /\ UNCHANGED <<doc, hx, eq, un>>

\* Verify(t) up to the call of verifyPdfA1b, or to its return when t is not A1_B.
Verify(t) ==
    /\ pc \in {"idle", "done"}
    /\ level' = t
    /\ issues' = <<>>
    /\ graph' = Nil
    /\ ctx' = NoContext
    /\ trace' = <<>>
    /\ found' = <<>>
    /\ IF t = Undefined
       THEN /\ result' = Result(t, FALSE, <<>>)
            /\ fatal' = TRUE
            /\ pc' = "done"
       ELSE IF t = A1_B
       THEN /\ result' = NoResult
            /\ fatal' = FALSE
            /\ pc' = "header"
       ELSE /\ result' = Result(t, TRUE, <<>>)
            /\ fatal' = FALSE
            /\ pc' = "done"
    /\ UNCHANGED <<doc, hx, eq, un>>

Header ==
    /\ pc = "header"
    /\ RunCheck("verifyFileHeader", VerifyFileHeader(doc), "trailer")
    /\ UNCHANGED <<doc, level, graph, ctx, result, fatal, hx, eq, un>>

Trailer ==
    /\ pc = "trailer"
    /\ RunCheck("verifyFileTrailer", VerifyFileTrailer(doc), "xref")
    /\ UNCHANGED <<doc, level, graph, ctx, result, fatal, hx, eq, un>>

Xref ==
    /\ pc = "xref"
    /\ RunCheck("verifyCrossReferenceTable", VerifyCrossReferenceTable(doc), "info")
    /\ UNCHANGED <<doc, level, graph, ctx, result, fatal, hx, eq, un>>

Info ==
    /\ pc = "info"
    /\ \E ord \in Orders :
          RunCheck("verifyDocumentInformationDictionary",
                   VerifyDocumentInformationDictionary(doc, ord), "resolve")
    /\ UNCHANGED <<doc, level, graph, ctx, result, fatal, hx, eq, un>>

\* graph, err := d.ResolveGraph(); on an error verifyPdfA1b returns the
\* single resolution error in place of issues.
Resolve ==
    /\ pc = "resolve"
    /\ \E ord \in Orders :
          LET g == ResolveGraph(doc, ord) IN
          IF g.ok
          THEN /\ graph' = g.v
               /\ pc' = "pageindex"
               /\ UNCHANGED issues
          ELSE /\ graph' = Nil
               /\ issues' = <<ResolutionError(g.err)>>
               /\ pc' = "return"
    /\ UNCHANGED <<doc, level, ctx, result, fatal, trace, found, hx, eq, un>>

\* pageIndex, err := d.buildPageIndex(graph); ctx := &ValidationContext{...}
PageIndex ==
    /\ pc = "pageindex"
    /\ LET pageIndex == BuildPageIndex(graph) IN
       IF pageIndex.ok
       THEN /\ ctx' = [PageIndex |-> pageIndex.v, CurrentPage |-> 0, errs |-> <<>>]
            /\ pc' = "document"
            /\ UNCHANGED issues
       ELSE /\ ctx' = ctx
            /\ issues' = <<ResolutionError(pageIndex.err)>>
            /\ pc' = "return"
    /\ UNCHANGED <<doc, level, graph, result, fatal, trace, found, hx, eq, un>>

Document ==
    /\ pc = "document"
    /\ \E ord \in Orders :
          LET w == VerifyDocument(graph, ctx, ord) IN
          /\ ctx' = [ctx EXCEPT !.CurrentPage = w.CurrentPage]
          /\ RunCheck("verifyDocument", Checked(w.errs), "indirect")
    /\ UNCHANGED <<doc, level, graph, result, fatal, hx, eq, un>>

Indirect ==
    /\ pc = "indirect"
    /\ RunCheck("verifyIndirectObjects", VerifyIndirectObjects(doc), "optional")
    /\ UNCHANGED <<doc, level, graph, ctx, result, fatal, hx, eq, un>>

Optional ==
    /\ pc = "optional"
    /\ \E ord \in Orders :
          RunCheck("verifyOptionalContent", VerifyOptionalContent(doc, ord), "intent")
    /\ UNCHANGED <<doc, level, graph, ctx, result, fatal, hx, eq, un>>

Intent ==
    /\ pc = "intent"
    /\ \E ord \in Orders :
          RunCheck("verifyOutputIntent", VerifyOutputIntent(doc, ord), "return")
    /\ UNCHANGED <<doc, level, graph, ctx, result, fatal, hx, eq, un>>

\* Verify after verifyPdfA1b has returned issues, with the test inverted.
ReturnInverted ==
    /\ pc = "return"
    /\ result' = IF Len(issues) > 0
                 THEN Result(level, TRUE, issues)
                 ELSE Result(level, FALSE, <<>>)
    /\ pc' = "done"
    /\ UNCHANGED <<doc, level, issues, graph, ctx, fatal, trace, found, hx, eq, un>>

\* Verify after verifyPdfA1b has returned issues (verifier.go:40-53).
Return ==
    /\ pc = "return"
    /\ result' = IF Len(issues) > 0
                 THEN Result(level, FALSE, issues)
                 ELSE Result(level, TRUE, <<>>)
    /\ pc' = "done"
    /\ UNCHANGED <<doc, level, issues, graph, ctx, fatal, trace, found, hx, eq, un>>

NoHex == [in |-> <<>>, out |-> <<>>, done |-> FALSE]
NoCall == [op |-> "", in |-> Nil, out |-> Nil, done |-> FALSE]
NoValue == [v |-> Nil, made |-> "nil"]
NoEq == [a |-> NoValue, b |-> NoValue, c |-> NoValue, done |-> FALSE,
         aa |-> FALSE, ab |-> FALSE, ba |-> FALSE, bc |-> FALSE, ac |-> FALSE]

Init ==
    /\ doc \in Docs
    /\ pc = "idle"
    /\ level = Undefined
    /\ issues = <<>>
    /\ graph = Nil
    /\ ctx = NoContext
    /\ result = NoResult
    /\ fatal = FALSE
    /\ trace = <<>>
    /\ found = <<>>
    /\ hx = NoHex
    /\ eq = NoEq
    /\ un = NoCall

Next ==
    \/ \E t \in Levels : Verify(t)
    \/ Header
    \/ Trailer
    \/ Xref
    \/ Info
    \/ Resolve
    \/ PageIndex
    \/ Document
    \/ Indirect
    \/ Optional
    \/ Intent
    \/ Return

Spec == Init /\ [][Next]_vars

(***************************************************************************)
(* Properties of a verification run.                                        *)
(***************************************************************************)
\* A Verify(A1_B) call has returned.
Returned == pc = "done" /\ level = A1_B

\* The object numbers a raw value refers to.
RECURSIVE RawRefs(_)
RawRefs(v) ==
    CASE v.t = "PDFRef" -> {v.ObjNum}
      [] v.t = "PDFDict" -> UNION {RawRefs(v.e[k]) : k \in DOMAIN v.e}
      [] v.t = "PDFArray" -> UNION {RawRefs(v.a[i]) : i \in 1..Len(v.a)}
      [] OTHER -> {}

\* The object numbers the object n of the file refers to.
BodyRefs(d, n) ==
    IF n \in DOMAIN d.xrefTable
       /\ d.file[d.xrefTable[n]].kind \in {"dict", "stream", "array"}
    THEN RawRefs(d.file[d.xrefTable[n]].v)
    ELSE {}

RECURSIVE ReachFrom(_, _)
ReachFrom(d, S) ==
    LET T == S \cup UNION {BodyRefs(d, n) : n \in S}
    IN  IF T = S THEN S ELSE ReachFrom(d, T)

\* The object numbers reachable from the trailer through references.
Reachable(d) == ReachFrom(d, RawRefs(d.trailer))

\* C1: when Verify(A1_B) returns, Valid is true exactly when Issues is empty;
\* a run that accumulated no PDFError returns Valid = true, no issues and no
\* fatal error, and a run that accumulated some returns Valid = false with
\* exactly those issues.
C1_ValidIffNoIssues ==
    Returned =>
        /\ result.Valid <=> (result.Issues = <<>>)
        /\ issues = <<>> => (result = Result(A1_B, TRUE, <<>>) /\ ~fatal)
        /\ issues # <<>> => result = Result(A1_B, FALSE, issues)

C1_Witness ==
    /\ Returned
    /\ trace = CheckOrder
    /\ result.Valid
    /\ result.Issues = <<>>

\* C2: Verify(Undefined) returns a fatal error and a Result with Valid = false
\* and no issues, and no check, file read or resolution has run for it.
C2_UndefinedIsFatal ==
    (level = Undefined /\ pc # "idle") =>
        /\ pc = "done"
        /\ fatal
        /\ result = Result(Undefined, FALSE, <<>>)
        /\ trace = <<>>
        /\ found = <<>>
        /\ graph = Nil

C2_Witness ==
    /\ pc = "done"
    /\ level = Undefined
    /\ fatal
    /\ ~result.Valid

\* C3: a reference reachable from the trailer to an object number that is
\* not in the xref table makes ResolveGraph fail without a graph; and when
\* ResolveGraph fails, Verify(A1_B) returns Valid = false with exactly one
\* PDFError, 6.1.6/0 on page 0, and neither the traversal nor the 6.1.13 nor
\* the 6.2.2 check has run.
C3_ResolutionFailure ==
    /\ (\E n \in Reachable(doc) : n \notin DOMAIN doc.xrefTable) =>
          \A ord \in Orders :
              ~ResolveGraph(doc, ord).ok /\ ResolveGraph(doc, ord).v = Nil
    /\ (Returned /\ \E ord \in Orders : ~ResolveGraph(doc, ord).ok) =>
          /\ ~result.Valid
          /\ Len(result.Issues) = 1
          /\ result.Issues[1].clause = "6.1.6"
          /\ result.Issues[1].subclause = 0
          /\ result.Issues[1].page = 0
          /\ \A i \in 1..Len(trace) :
                trace[i] \notin {"verifyDocument", "verifyOptionalContent",
                                 "verifyOutputIntent"}

C3_Witness ==
    /\ Returned
    /\ Missing \in Reachable(doc)
    /\ graph = Nil
    /\ Len(result.Issues) = 1
    /\ result.Issues[1].clause = "6.1.6"

\* C4: when Verify(A1_B) returns, every check has been executed and every
\* PDFError a check produced is in the returned Issues.
C4_EveryFindingReturned ==
    Returned =>
        /\ trace = CheckOrder
        /\ \A i \in 1..Len(found) :
              \E j \in 1..Len(result.Issues) : result.Issues[j] = found[i]

(***************************************************************************)
(* Properties of the resolved graph and of the traversal.                   *)
(***************************************************************************)
\* Every value that occurs in v, v included.
RECURSIVE Nodes(_)
Nodes(v) ==
    CASE v.t = "PDFDict" -> {v} \cup UNION {Nodes(v.e[k]) : k \in DOMAIN v.e}
      [] v.t = "PDFArray" -> {v} \cup UNION {Nodes(v.a[i]) : i \in 1..Len(v.a)}
      [] OTHER -> {v}

\* D is the dictionary resolveAll made from the dictionary of the indirect
\* object n, that is, the result of resolving the reference n 0 R.
ResolvedFrom(D, n) == IsPDFDict(D) /\ D.id = <<n, 0, 0>>

\* C5: in the graph ResolveGraph returned, every dictionary produced by
\* resolving a reference R holds R itself under the key _ref.
C5_MarkerSurvives ==
    graph # Nil =>
        \A D \in Nodes(graph) : \A n \in 1..MaxObj :
            ResolvedFrom(D, n) =>
                /\ Get(D, "_ref").t = "PDFRef"
                /\ Get(D, "_ref").ObjNum = n
                /\ Get(D, "_ref").GenNum = 0

RECURSIVE SumSeq(_)
SumSeq(s) == IF s = <<>> THEN 0 ELSE Head(s) + SumSeq(Tail(s))

\* The number of PDFErrors the per-object checks yield on the raw value v,
\* each dictionary, array and hex string in it taken once.
RECURSIVE RawErrCount(_)
RawErrCount(v) ==
    CASE v.t = "PDFHexString" -> Len(ValidateHexString(v, 0))
      [] v.t = "PDFDict" ->
           LET ks == KeySeq(v.e, AllKeys) IN
           Len(ValidateStreamObject(v, 0))
               + SumSeq([i \in 1..Len(ks) |-> RawErrCount(v.e[ks[i]])])
      [] v.t = "PDFArray" ->
           SumSeq([i \in 1..Len(v.a) |-> RawErrCount(v.a[i])])
      [] OTHER -> 0

\* The number of PDFErrors of a traversal that takes the trailer and every
\* indirect object reachable from it exactly once.
ExpectedErrCount(d) ==
    RawErrCount(d.trailer)
        + SumSeq([n \in 1..MaxObj |->
                     IF n \in Reachable(d)
                     THEN RawErrCount(d.file[d.xrefTable[n]].v) ELSE 0])

\* The PDFErrors verifyDocument returned, among those the checks produced.
TraversalErrs(errs) ==
    SelectSeq(errs, LAMBDA e : e.clause \in {"6.1.6", "6.1.7"})

\* C6: verifyDocument applies its checks to every reachable dictionary, array
\* and hex string exactly once, so the errors it returns are as many as the
\* reachable objects yield when each is checked once.
C6_EachObjectOnce ==
    (\E i \in 1..Len(trace) : trace[i] = "verifyDocument") =>
        Len(TraversalErrs(found)) = ExpectedErrCount(doc)

\* C7: for the trailer and for every reference reachable from it, resolving
\* the result of resolveAll once more yields a value equal to that result
\* under EqualPDFValue.
C7_ResolveAllIdempotent ==
    pc = "pageindex" =>
        \A x \in {doc.trailer} \cup {PDFRef(n, 0) : n \in Reachable(doc)} :
            \A ord \in Orders :
                LET once == ResolveAll(doc, x, NewVisited, ord)
                    twice == ResolveAll(doc, once.v, NewVisited, ord)
                IN  once.ok => (twice.ok /\ EqualPDFValue(twice.v, once.v))

\* The position of the check that reports under the clause.
Rank(clause) ==
    CASE clause = "6.1.2" -> 1
      [] clause = "6.1.3" -> 2
      [] clause = "6.1.4" -> 3
      [] clause = "6.1.5" -> 4
      [] clause \in {"6.1.6", "6.1.7"} -> 5
      [] clause = "6.1.13" -> 6
      [] clause = "6.2.2" -> 7

HasRun(name) == \E i \in 1..Len(trace) : trace[i] = name

\* C9: when the graph was resolved, the returned Issues hold the errors of
\* 6.1.2, 6.1.3, 6.1.4, 6.1.5, the traversal, 6.1.13 and 6.2.2 in this
\* order, and the errors of each of the first four checks in increasing
\* subclause order.
C9_IssuesInCheckOrder ==
    (Returned /\ HasRun("verifyDocument")) =>
        \A i, j \in 1..Len(result.Issues) :
            i < j =>
                LET a == result.Issues[i]
                    b == result.Issues[j]
                IN  /\ Rank(a.clause) <= Rank(b.clause)
                    /\ (a.clause = b.clause /\ Rank(a.clause) <= 4) =>
                          a.subclause < b.subclause

C9_Witness ==
    /\ Returned
    /\ HasRun("verifyDocument")
    /\ \E i, j, k, l \in 1..Len(result.Issues) :
          /\ i < j /\ j < k /\ k < l
          /\ result.Issues[i].clause = "6.1.2"
          /\ result.Issues[j].clause = "6.1.2"
          /\ result.Issues[k].clause = "6.1.6"
          /\ result.Issues[l].clause = "6.2.2"

(***************************************************************************)
(* validateHexString on its own: every byte string of up to MaxHexLen       *)
(* bytes over HexAlphabet ("A", "9", "f", "X", "g", space, line feed).      *)
(***************************************************************************)
MaxHexLen == 4
HexAlphabet == {65, 57, 102, 88, 103, 32, 10}
HexStrings == UNION {[1..n -> HexAlphabet] : n \in 0..MaxHexLen}

NoDoc ==
    [head |-> <<>>, tail |-> <<>>, xref |-> <<>>,
     trailer |-> PDFDict(<<0, 0>>, EmptyMap),
     xrefTable |-> EmptyMap, file |-> EmptyMap]

InitHex ==
    /\ doc = NoDoc
    /\ pc = "idle"
    /\ level = Undefined
    /\ issues = <<>>
    /\ graph = Nil
    /\ ctx = NoContext
    /\ result = NoResult
    /\ fatal = FALSE
    /\ trace = <<>>
    /\ found = <<>>
    /\ \E h \in HexStrings : hx = [in |-> h, out |-> <<>>, done |-> FALSE]
    /\ eq = NoEq
    /\ un = NoCall

\* errs := validateHexString(PDFHexString{hx.in}, ctx)
ValidateHex ==
    /\ ~hx.done
    /\ hx' = [hx EXCEPT !.out = ValidateHexString(PDFHexString(hx.in),
                                                  ctx.CurrentPage),
                        !.done = TRUE]
    /\ UNCHANGED <<doc, pc, level, issues, graph, ctx, result, fatal, trace,
                   found, eq, un>>

NextHex == ValidateHex

SpecHex == InitHex /\ [][NextHex]_vars

\* The characters of h that count: not white space (NUL, HT, LF, FF, CR, SP).
Counted(h) == {i \in 1..Len(h) : h[i] \notin {0, 9, 10, 12, 13, 32}}
\* The counted characters of h that are not one of 0-9, A-F, a-f.
NonHex(h) ==
    {i \in Counted(h) : h[i] \notin (48..57) \cup (65..70) \cup (97..102)}

ErrorsAt(out, sub) ==
    {i \in 1..Len(out) : out[i].clause = "6.1.6" /\ out[i].subclause = sub}

\* C10: validateHexString returns one PDFError 6.1.6/1 exactly when some
\* counted character is not a hex digit, holding one underlying error per
\* such character; one PDFError 6.1.6/2 exactly when the number of counted
\* characters, invalid ones included, is odd; and nothing else.
C10_HexStringErrors ==
    hx.done =>
        /\ Cardinality(ErrorsAt(hx.out, 1)) = (IF NonHex(hx.in) # {} THEN 1 ELSE 0)
        /\ \A i \in ErrorsAt(hx.out, 1) :
              Len(hx.out[i].errs) = Cardinality(NonHex(hx.in))
        /\ Cardinality(ErrorsAt(hx.out, 2))
              = (IF Cardinality(Counted(hx.in)) % 2 = 1 THEN 1 ELSE 0)
        /\ Len(hx.out)
              = Cardinality(ErrorsAt(hx.out, 1)) + Cardinality(ErrorsAt(hx.out, 2))

\* "XXXX": only 6.1.6/1, with four underlying errors.
C10_Witness ==
    /\ hx.done
    /\ hx.in = <<88, 88, 88, 88>>
    /\ Len(hx.out) = 1
    /\ hx.out[1].subclause = 1
    /\ Len(hx.out[1].errs) = 4

(***************************************************************************)
(* EqualPDFValue on its own: every triple of the values below.  made is     *)
(* the variant the value was constructed as.                                *)
(***************************************************************************)
Made(v, name) == [v |-> v, made |-> name]

EqScalars ==
    {Made(PDFHexString(<<65>>), "PDFHexString"),
     Made(PDFString("A"), "PDFString"),
     Made(PDFName("A"), "PDFName"),
     Made(PDFInteger(1), "PDFInteger"),
     Made(PDFInteger(2), "PDFInteger"),
     Made(PDFReal(<<1>>), "PDFReal"),
     Made(PDFReal(NaN), "PDFReal"),
     Made(PDFBoolean(TRUE), "PDFBoolean"),
     Made(PDFRef(1, 0), "PDFRef"),
     Made(PDFRef(1, 1), "PDFRef"),
     Made(PDFRef(2, 0), "PDFRef")}

EqContainers ==
    {Made(PDFArray(<<1>>, <<>>), "PDFArray"),
     Made(PDFArray(<<2>>, <<PDFInteger(1)>>), "PDFArray"),
     Made(PDFArray(<<3>>, <<PDFArray(<<4>>, <<PDFInteger(1)>>)>>), "PDFArray"),
     Made(PDFDict(<<5>>, EmptyMap), "PDFDict"),
     Made(PDFDict(<<6>>, "N" :> PDFInteger(1)), "PDFDict"),
     Made(PDFDict(<<7>>, "N" :> PDFInteger(1)), "PDFDict"),
     Made(PDFDict(<<8>>, "N" :> PDFReal(<<1>>)), "PDFDict"),
     Made(PDFDict(<<9>>, "M" :> PDFDict(<<10>>, "N" :> PDFInteger(1))), "PDFDict"),
     Made(PDFStreamDict(PDFDict(<<11>>, "N" :> PDFInteger(1))), "PDFStreamDict"),
     Made(PDFStreamDict(PDFDict(<<12>>, EmptyMap)), "PDFStreamDict")}

EqValues == EqScalars \cup EqContainers

InitEq ==
    /\ doc = NoDoc
    /\ pc = "idle"
    /\ level = Undefined
    /\ issues = <<>>
    /\ graph = Nil
    /\ ctx = NoContext
    /\ result = NoResult
    /\ fatal = FALSE
    /\ trace = <<>>
    /\ found = <<>>
    /\ hx = NoHex
    /\ \E a, b, c \in EqValues : eq = [NoEq EXCEPT !.a = a, !.b = b, !.c = c]
    /\ un = NoCall

\* The calls EqualPDFValue(a, a), (a, b), (b, a), (b, c) and (a, c).
Compare ==
    /\ ~eq.done
    /\ eq' = [eq EXCEPT !.done = TRUE,
                        !.aa = EqualPDFValue(eq.a.v, eq.a.v),
                        !.ab = EqualPDFValue(eq.a.v, eq.b.v),
                        !.ba = EqualPDFValue(eq.b.v, eq.a.v),
                        !.bc = EqualPDFValue(eq.b.v, eq.c.v),
                        !.ac = EqualPDFValue(eq.a.v, eq.c.v)]
    /\ UNCHANGED <<doc, pc, level, issues, graph, ctx, result, fatal, trace,
                   found, hx, un>>

NextEq == Compare

SpecEq == InitEq /\ [][NextEq]_vars

\* C8: EqualPDFValue is reflexive, symmetric and transitive; two references
\* are equal exactly when object number and generation number both match;
\* and values of distinct variants never compare equal.
C8_EqualityIsEquivalence ==
    eq.done =>
        /\ eq.aa
        /\ eq.ab = eq.ba
        /\ (eq.ab /\ eq.bc) => eq.ac
        /\ (eq.a.made = "PDFRef" /\ eq.b.made = "PDFRef") =>
              (eq.ab <=> (/\ eq.a.v.ObjNum = eq.b.v.ObjNum
                          /\ eq.a.v.GenNum = eq.b.v.GenNum))
        /\ eq.a.made # eq.b.made => ~eq.ab

(***************************************************************************)
(* Calls of single functions.  The verification run is idle; un holds the   *)
(* input of the call and, once done, its output.                            *)
(***************************************************************************)
RunIdle ==
    /\ doc = NoDoc
    /\ pc = "idle"
    /\ level = Undefined
    /\ issues = <<>>
    /\ graph = Nil
    /\ ctx = NoContext
    /\ result = NoResult
    /\ fatal = FALSE
    /\ trace = <<>>
    /\ found = <<>>
    /\ hx = NoHex
    /\ eq = NoEq

RunStays ==
    UNCHANGED <<doc, pc, level, issues, graph, ctx, result, fatal, trace,
                found, hx, eq>>

Call(op, in) == [op |-> op, in |-> in, out |-> Nil, done |-> FALSE]
Called(out) == [un EXCEPT !.out = out, !.done = TRUE]

\* A Document that holds nothing but the trailer, as
\* &Document{file: f, trailer: trailer} over an empty file.
TrailerOnly(trailer) == [NoDoc EXCEPT !.trailer = trailer]

(***************************************************************************)
(* verifyDocument over the graph of a trailer << /Info << ... >> >> whose   *)
(* Info dictionary holds the keys un.in, each with the value <aaaa>.        *)
(***************************************************************************)
StreamKeys ==
    {"F", "FFilter", "FDecodeParams", "FDecodeParms", "Length", "Title", "Type"}

InfoWith(ks) ==
    PDFDict(<<0, 0>>,
        "Info" :> PDFDict(<<0, 2>>, [k \in ks |-> PDFHexString(<<97, 97, 97, 97>>)]))

\* graph, _ := doc.ResolveGraph(); errs := doc.verifyDocument(graph, ctx)
WalkDict ==
    /\ ~un.done
    /\ un.op = "verifyDocument"
    /\ \E ord \in Orders :
          LET d == TrailerOnly(InfoWith(un.in))
              g == ResolveGraph(d, ord)
          IN  un' = Called(VerifyDocument(g.v, NoContext, ord).errs)
    /\ RunStays

\* The call of op has returned.
Ran(op) == un.done /\ un.op = op

Subclauses(errs) == [i \in 1..Len(errs) |-> errs[i].subclause]

C12_FDecodeParmsReported ==
    (/\ Ran("verifyDocument")
     /\ "FDecodeParms" \in un.in
     /\ un.in \cap {"F", "FFilter", "FDecodeParams"} = {}) =>
        /\ Len(un.out) = 1
        /\ un.out[1].clause = "6.1.7"
        /\ un.out[1].subclause = 3

(***************************************************************************)
(* verifyFileTrailer on a file that ends with un.in: some bytes, a marker   *)
(* (whole, broken or none) and up to MaxSuffixLen further bytes.            *)
(***************************************************************************)
MaxSuffixLen == 4

\* The last bytes of a file: "startxref" LF "9" LF, with a "%" after it or
\* not, then "%%EOF", "%EOF" or nothing, then bytes out of LF, CR and "a".
FileEnds ==
    LET start == <<115, 116, 97, 114, 116, 120, 114, 101, 102, 10, 57, 10>>
        befores == {start, Append(start, Percent)}
        markers == {EOFMarker, Tail(EOFMarker), <<>>}
        suffixes == UNION {[1..n -> {LF, CR, 97}] : n \in 0..MaxSuffixLen}
    IN  {b \o m \o x : b \in befores, m \in markers, x \in suffixes}

\* errs := doc.verifyFileTrailer(), the trailer holding an ID and no Encrypt
CheckTrailer ==
    /\ ~un.done
    /\ un.op = "verifyFileTrailer"
    /\ un' = Called(VerifyFileTrailer(
                 [TrailerOnly(PDFDict(<<0, 0>>, FileID)) EXCEPT !.tail = un.in]).errs)
    /\ RunStays

EndsWith(s, e) ==
    Len(s) >= Len(e) /\ SubSeq(s, Len(s) - Len(e) + 1, Len(s)) = e

\* The file ends with %%EOF, followed by nothing or by one end-of-line
\* marker (LF, CR or CR LF).
EndsWithEOF(s) ==
    \E eol \in {<<>>, <<LF>>, <<CR>>, <<CR, LF>>} : EndsWith(s, EOFMarker \o eol)

\* C14: verifyFileTrailer reports exactly one 6.1.3/3 unless the file ends
\* with %%EOF followed by nothing or by a single end-of-line marker.
C14_NothingAfterEOF ==
    Ran("verifyFileTrailer") =>
        IF EndsWithEOF(un.in)
        THEN un.out = <<>>
        ELSE /\ Len(un.out) = 1
             /\ un.out[1].clause = "6.1.3"
             /\ un.out[1].subclause = 3

(***************************************************************************)
(* verifyFileHeader on a file that begins with un.in: a first line, a line  *)
(* terminator or none, a second line of up to MaxLineLen bytes, and a line  *)
(* terminator or none.                                                      *)
(***************************************************************************)
MaxLineLen == 5

Terminators == {<<>>, <<LF>>, <<CR>>, <<CR, LF>>}

\* The first bytes of a file: "%P", "P" or an empty first line, and a second
\* line out of "%", "a" and a byte above 127.
FileStarts ==
    LET firstLines == {<<Percent, 80>>, <<80>>, <<>>}
        secondLines == UNION {[1..n -> {Percent, 97, 200}] : n \in 0..MaxLineLen}
    IN  {l1 \o t1 \o l2 \o t2 :
            l1 \in firstLines, t1 \in Terminators, l2 \in secondLines,
            t2 \in {<<>>, <<LF>>}}

\* errs := doc.verifyFileHeader()
CheckHeader ==
    /\ ~un.done
    /\ un.op = "verifyFileHeader"
    /\ un' = Called(VerifyFileHeader([NoDoc EXCEPT !.head = un.in]))
    /\ RunStays

\* The lines of a byte string: a line runs up to the next CR or LF or to the
\* end of the bytes, and CR LF, CR and LF each terminate one line.
LineOf(s) == SubSeq(s, 1, LineEnd(s, 0))
AfterLine(s) ==
    LET n == LineEnd(s, 0)
        skip == IF n + 2 <= Len(s) /\ s[n + 1] = CR /\ s[n + 2] = LF THEN 2
                ELSE IF n + 1 <= Len(s) THEN 1 ELSE 0
    IN  SubSeq(s, n + skip + 1, Len(s))
\* The line is missing, empty or does not begin with '%'.
NoPercentLine(s) == Len(s) = 0 \/ Len(LineOf(s)) = 0 \/ LineOf(s)[1] # Percent
LowCount(l) == Cardinality({i \in 2..Len(l) : l[i] <= MaxAscii})

\* What the header rules ask for on the bytes s: the subclauses in order.
HeaderSubclauses(s) ==
    LET l2 == LineOf(AfterLine(s))
    IN  (IF NoPercentLine(s) THEN <<1>> ELSE <<>>)
        \o (IF NoPercentLine(AfterLine(s)) THEN <<2>>
            ELSE (IF Len(l2) < MinCommentLen THEN <<3>> ELSE <<>>)
                 \o (IF LowCount(l2) > 0 THEN <<4>> ELSE <<>>))

HeaderAsRequired(s, errs) ==
    /\ Subclauses(errs) = HeaderSubclauses(s)
    /\ \A i \in 1..Len(errs) :
          /\ errs[i].clause = "6.1.2"
          /\ errs[i].subclause = 4
                 => Len(errs[i].errs) = LowCount(LineOf(AfterLine(s)))

\* C13: verifyFileHeader reports 6.1.2/1 iff line 1 is missing, empty or
\* does not begin with '%'; 6.1.2/2 and nothing further when line 2 is
\* missing, empty or does not begin with '%'; otherwise 6.1.2/3 iff line 2
\* has fewer than 5 bytes and one 6.1.2/4 iff some byte after the '%' is
\* <= 127, holding one underlying error for each such byte.
C13_HeaderRules ==
    Ran("verifyFileHeader") => /\ ~un.out.panic
               /\ HeaderAsRequired(un.in, un.out.errs)

\* The same rules on the calls that return.
C13_HeaderRulesWhenReturning ==
    (Ran("verifyFileHeader") /\ ~un.out.panic) => HeaderAsRequired(un.in, un.out.errs)

(***************************************************************************)
(* verifyCrossReferenceTable on the bytes un.in at the xref offset: a first *)
(* line, a line terminator or none, a subsection header of up to            *)
(* MaxFieldsLen bytes, and a line terminator or none.                       *)
(***************************************************************************)
MaxFieldsLen == 4

\* The bytes at the xref offset: "xref", "xre" or "xref" SP, and a subsection
\* header out of "0", SP and HT.
XrefStarts ==
    LET xrefLines == {XrefKeyword, SubSeq(XrefKeyword, 1, 3), Append(XrefKeyword, 32)}
        headers == UNION {[1..n -> {48, 32, 9}] : n \in 0..MaxFieldsLen}
    IN  {l1 \o t1 \o l2 \o t2 :
            l1 \in xrefLines, t1 \in Terminators, l2 \in headers,
            t2 \in {<<>>, <<LF>>}}

\* errs := doc.verifyCrossReferenceTable()
CheckXref ==
    /\ ~un.done
    /\ un.op = "verifyCrossReferenceTable"
    /\ un' = Called(VerifyCrossReferenceTable([NoDoc EXCEPT !.xref = un.in]))
    /\ RunStays

\* What the cross reference rules ask for on the bytes s.
XrefSubclauses(s) ==
    LET rest == AfterLine(s)
    IN  (IF Len(s) = 0 \/ LineOf(s) # XrefKeyword THEN <<1>> ELSE <<>>)
        \o (IF Len(rest) = 0 \/ Len(LineOf(rest)) = 0 THEN <<2>>
            ELSE IF CountFields(LineOf(rest), 1, FALSE) # 2 THEN <<3>>
            ELSE <<>>)

XrefAsRequired(s, errs) ==
    /\ Subclauses(errs) = XrefSubclauses(s)
    /\ \A i \in 1..Len(errs) : errs[i].clause = "6.1.4"

\* C15: verifyCrossReferenceTable completes on every content of the bytes at
\* the xref offset, reporting 6.1.4/1 iff the first line is not exactly
\* "xref", 6.1.4/2 and no 6.1.4/3 when the second line is missing or empty,
\* and otherwise 6.1.4/3 iff the second line does not split into two fields.
C15_XrefRules ==
    Ran("verifyCrossReferenceTable") => /\ ~un.out.panic
               /\ XrefAsRequired(un.in, un.out.errs)

\* The same rules on the calls that return.
C15_XrefRulesWhenReturning ==
    (Ran("verifyCrossReferenceTable") /\ ~un.out.panic) => XrefAsRequired(un.in, un.out.errs)

(***************************************************************************)
(* verifyDocumentInformationDictionary on a trailer whose Info is un.in: a  *)
(* dictionary over InfoKeys, or a value that is no dictionary.              *)
(***************************************************************************)

\* What Info can be: a dictionary over Title, Foo and H holding strings, an
\* integer or a name, or a value that is no dictionary.
Infos ==
    LET values == {PDFString("T"), PDFString(""), PDFInteger(1), PDFName("T")}
    IN  UNION {{PDFDict(<<0, 2>>, e) : e \in [ks -> values]} :
                  ks \in SUBSET {"Title", "Foo", "H"}}
        \cup {PDFInteger(1), PDFArray(<<0, 2>>, <<>>)}

\* errs := doc.verifyDocumentInformationDictionary()
CheckInfo ==
    /\ ~un.done
    /\ un.op = "verifyDocumentInformationDictionary"
    /\ \E ord \in Orders :
          un' = Called(VerifyDocumentInformationDictionary(
                    TrailerOnly(PDFDict(<<0, 0>>, "Info" :> un.in)), ord).errs)
    /\ RunStays

\* The entries of the Info dictionary i whose key is not an allowed field.
DisallowedEntries(i) == {k \in DOMAIN i.e : k \notin allowedFields}
\* The entries of i that hold an empty string.
EmptyEntries(i) == {k \in DOMAIN i.e : i.e[k] = PDFString("")}

\* C16: for an Info dictionary the result is at most one 6.1.5/2 followed by
\* at most one 6.1.5/3, the first holding one underlying error for each entry
\* with a key outside the allowed fields whatever the type of its value, the
\* second one for each entry with an empty string; an Info that is not a
\* dictionary gives exactly one 6.1.5/1.
C16_InfoRules ==
    Ran("verifyDocumentInformationDictionary") =>
        IF IsPDFDict(un.in)
        THEN /\ Subclauses(un.out)
                  = (IF DisallowedEntries(un.in) # {} THEN <<2>> ELSE <<>>)
                    \o (IF EmptyEntries(un.in) # {} THEN <<3>> ELSE <<>>)
             /\ \A n \in 1..Len(un.out) :
                   /\ un.out[n].clause = "6.1.5"
                   /\ un.out[n].subclause = 2
                         => Len(un.out[n].errs) = Cardinality(DisallowedEntries(un.in))
                   /\ un.out[n].subclause = 3
                         => Len(un.out[n].errs) = Cardinality(EmptyEntries(un.in))
        ELSE /\ Len(un.out) = 1
             /\ un.out[1].clause = "6.1.5"
             /\ un.out[1].subclause = 1

\* The same rules for the Info dictionaries whose values are all strings.
C16_InfoRulesOnStrings ==
    (Ran("verifyDocumentInformationDictionary") /\ IsPDFDict(un.in)
             /\ \A k \in DOMAIN un.in.e : un.in.e[k].t = "PDFString")
        => C16_InfoRules

(***************************************************************************)
(* verifyOutputIntent on a file whose catalog (object 1) refers to the      *)
(* OutputIntents array (object 2), whose elements are references to the     *)
(* objects un.in, numbered from 11; the objects 3..8 are the profiles.      *)
(***************************************************************************)
MaxIntents == 2

StreamBody(n, e) ==
    [kind |-> "stream", v |-> PDFDict(<<n, 0>>, e), tok |-> "", endstream |-> TRUE]
ArrayBody(n, a) ==
    [kind |-> "array", v |-> PDFArray(<<n, 0>>, a), tok |-> "", endstream |-> FALSE]

\* 3: N = 3; 4: N = 2; 5: N is a name; 6: a dictionary that is no stream;
\* 7: an array; 8: a stream with an entry that refers to no object.
ProfileBodies ==
    LET length == "Length" :> PDFInteger(0) IN
    (3 :> StreamBody(3, length @@ ("N" :> PDFInteger(3))))
    @@ (4 :> StreamBody(4, length @@ ("N" :> PDFInteger(2))))
    @@ (5 :> StreamBody(5, length @@ ("N" :> PDFName("x"))))
    @@ (6 :> DictBody(6, "N" :> PDFInteger(3)))
    @@ (7 :> ArrayBody(7, <<>>))
    @@ (8 :> StreamBody(8, length @@ ("N" :> PDFInteger(3))
                            @@ ("Next" :> PDFRef(9, 0))))

\* The bodies an element of OutputIntents can refer to.
IntentElements ==
    LET gts == "S" :> PDFName("GTS_PDFA1")
        oci == "OutputConditionIdentifier" :> PDFString("sRGB")
        dop(p) == "DestOutputProfile" :> PDFRef(p, 0)
    IN  {DictBody(0, gts @@ oci)}
        \cup {DictBody(0, gts @@ oci @@ dop(p)) : p \in DOMAIN ProfileBodies}
        \cup {DictBody(0, gts @@ dop(p)) : p \in {3, 4}}
        \cup {DictBody(0, ("S" :> PDFName("x")) @@ oci @@ dop(3)),
              DictBody(0, ("S" :> PDFName("x")) @@ dop(3)),
              DictBody(0, ("S" :> PDFInteger(1)) @@ oci @@ dop(3)),
              DictBody(0, oci @@ dop(4)),
              ArrayBody(0, <<>>)}

IntentArrays == UNION {[1..n -> IntentElements] : n \in 0..MaxIntents}

ElementBodies(elems) ==
    [n \in {10 + i : i \in 1..Len(elems)} |->
        [elems[n - 10] EXCEPT !.v.id = <<n, 0>>]]

IntentDoc(elems) ==
    LET bodies ==
            (1 :> DictBody(1, "OutputIntents" :> PDFRef(2, 0)))
            @@ (2 :> ArrayBody(2, [i \in 1..Len(elems) |-> PDFRef(10 + i, 0)]))
            @@ ProfileBodies @@ ElementBodies(elems)
    IN  [NoDoc EXCEPT
            !.trailer = PDFDict(<<0, 0>>, Root),
            !.xrefTable = [n \in DOMAIN bodies |-> Offset(n)],
            !.file = [o \in {Offset(n) : n \in DOMAIN bodies} |->
                         bodies[CHOOSE n \in DOMAIN bodies : Offset(n) = o]]]

\* errs := doc.verifyOutputIntent()
CheckIntent ==
    /\ ~un.done
    /\ un.op = "verifyOutputIntent"
    /\ \E ord \in Orders :
          un' = Called(VerifyOutputIntent(IntentDoc(un.in), ord).errs)
    /\ RunStays

\* The subclauses in subs of the errors errs, in order.
Only(errs, subs) ==
    Subclauses(SelectSeq(errs, LAMBDA e : e.subclause \in subs))

\* What the checks dict? -> S-name? -> S-value? -> OCI? ask for on the body b.
ElementSubclauses(b) ==
    IF b.kind # "dict" THEN <<2>>
    ELSE IF Get(b.v, "S").t # "PDFName" THEN <<3>>
    ELSE (IF Get(b.v, "S") # PDFName("GTS_PDFA1") THEN <<4>> ELSE <<>>)
         \o (IF Get(b.v, "OutputConditionIdentifier") = Nil THEN <<5>> ELSE <<>>)

RECURSIVE Concat(_)
Concat(ss) == IF ss = <<>> THEN <<>> ELSE Head(ss) \o Concat(Tail(ss))

\* C17: every element of OutputIntents passes through dict?, S-name?,
\* S-value? and OCI? in this order; a non-dictionary gives 6.2.2/2, an S that
\* is no name 6.2.2/3, a name other than GTS_PDFA1 6.2.2/4 and a missing
\* OutputConditionIdentifier 6.2.2/5, one error each, and the elements after
\* a failing one are still checked.
C17_ElementChecks ==
    Ran("verifyOutputIntent") =>
        /\ \A i \in 1..Len(un.out) : un.out[i].clause = "6.2.2"
                                     /\ Len(un.out[i].errs) = 1
        /\ Only(un.out, 1..5)
              = Concat([i \in 1..Len(un.in) |-> ElementSubclauses(un.in[i])])

\* A non-dictionary followed by an element with a wrong S and no
\* OutputConditionIdentifier.
C17_Witness ==
    /\ Ran("verifyOutputIntent")
    /\ Len(un.in) = 2
    /\ un.in[1].kind = "array"
    /\ Subclauses(un.out) = <<2, 4, 5>>

\* The errors verifyOutputIntent adds at the element i of elems: what it
\* returns on the first i elements beyond what it returns on the first i - 1.
IntentErrs(elems) == VerifyOutputIntent(IntentDoc(elems), AllKeys).errs
ErrsOfElement(elems, i) ==
    LET upTo == IntentErrs(SubSeq(elems, 1, i))
        before == IntentErrs(SubSeq(elems, 1, i - 1))
    IN  SubSeq(upTo, Len(before) + 1, Len(upTo))

\* The elements of elems that contain the key DestOutputProfile.
Carriers(elems) ==
    {i \in 1..Len(elems) :
        elems[i].kind = "dict" /\ "DestOutputProfile" \in DOMAIN elems[i].v.e}
FirstCarrier(elems) ==
    CHOOSE i \in Carriers(elems) : \A j \in Carriers(elems) : i <= j
\* The carriers whose DestOutputProfile is not equal to that of the first one.
Differing(elems) ==
    {i \in Carriers(elems) :
        ~EqualPDFValue(elems[i].v.e["DestOutputProfile"],
                       elems[FirstCarrier(elems)].v.e["DestOutputProfile"])}

ProfilesAgree(elems) ==
    \A i \in Carriers(elems) :
        IF i \in Differing(elems)
        THEN Only(ErrsOfElement(elems, i), 6..10) = <<6>>
        ELSE Only(ErrsOfElement(elems, i), {6}) = <<>>

\* C18: among the elements that contain DestOutputProfile, each one whose
\* value is not equal to that of the first such element in array order gives
\* exactly one 6.2.2/6 and none of 6.2.2/7..10, and each one whose value is
\* equal gives no 6.2.2/6.
C18_SameProfile ==
    Ran("verifyOutputIntent") =>
        /\ Len(Only(un.out, {6})) = Cardinality(Differing(un.in))
        /\ ProfilesAgree(un.in)

\* The same rule on the arrays whose elements all hold an S that is a name
\* and an OutputConditionIdentifier.
C18_SameProfileAmongChecked ==
    (Ran("verifyOutputIntent") /\ \A i \in 1..Len(un.in) :
                    Only(ErrsOfElement(un.in, i), {2, 3, 5}) = <<>>)
        => /\ Len(Only(un.out, {6})) = Cardinality(Differing(un.in))
           /\ ProfilesAgree(un.in)

\* The elements of elems that reach the profile checks whatever the elements
\* before them hold: a dictionary with a name S, an OutputConditionIdentifier
\* and a DestOutputProfile, with no DestOutputProfile in an earlier element.
ReachesProfile(elems) ==
    {i \in Carriers(elems) :
        /\ Get(elems[i].v, "S").t = "PDFName"
        /\ Get(elems[i].v, "OutputConditionIdentifier") # Nil
        /\ \A j \in Carriers(elems) : i <= j}

\* The object the DestOutputProfile of the element b refers to.
ProfileOf(b) == ProfileBodies[b.v.e["DestOutputProfile"].ObjNum]
\* Some entry of the profile refers to an object the file does not hold.
Unresolvable(p) ==
    /\ p.kind \in {"dict", "stream"}
    /\ \E k \in DOMAIN p.v.e :
          p.v.e[k].t = "PDFRef" /\ p.v.e[k].ObjNum \notin DOMAIN ProfileBodies

\* What the profile checks ask for on the profile object p.
ProfileSubclauses(p) ==
    IF Unresolvable(p) THEN <<7>>
    ELSE IF p.kind # "stream" THEN <<8>>
    ELSE IF Get(p.v, "N").t # "PDFInteger" THEN <<9>>
    ELSE IF Get(p.v, "N").Int \notin {1, 3, 4} THEN <<10>>
    ELSE <<>>

\* C19: an element that reaches the profile checks gives 6.2.2/7 when its
\* DestOutputProfile cannot be resolved, else 6.2.2/8 when the resolved value
\* is of a variant other than StreamDict, else 6.2.2/9 when N is missing or
\* no Integer, else 6.2.2/10 when N is outside {1, 3, 4}, else no error; the
\* first failure ends the element.
C19_ProfileChecks ==
    Ran("verifyOutputIntent") =>
        \A i \in ReachesProfile(un.in) :
            Only(ErrsOfElement(un.in, i), 6..10)
                = ProfileSubclauses(ProfileOf(un.in[i]))

\* The same checks on the profiles that are not plain dictionaries.
C19_ProfileChecksOnStreams ==
    Ran("verifyOutputIntent") =>
        \A i \in ReachesProfile(un.in) :
            ProfileOf(un.in[i]).kind # "dict"
                => Only(ErrsOfElement(un.in, i), 6..10)
                      = ProfileSubclauses(ProfileOf(un.in[i]))

(***************************************************************************)
(* ResolveGraphByPath(un.in) on a file whose trailer holds a direct Info    *)
(* dictionary, a Kids array and the reference Root.                         *)
(***************************************************************************)
MaxPathLen == 3

Paths ==
    LET segments == {"Info", "Title", "Kids", "Root", "OutputIntents",
                     "0", "1", "2", "X"}
    IN  UNION {[1..n -> segments] : n \in 0..MaxPathLen}

PathDoc ==
    [IntentDoc(<<>>) EXCEPT
        !.trailer = PDFDict(<<0, 0>>,
            Root
            @@ ("Info" :> PDFDict(<<0, 2>>, "Title" :> PDFString("T")))
            @@ ("Kids" :> PDFArray(<<0, 3>>, <<PDFRef(3, 0), PDFInteger(7)>>)))]

\* value, err := doc.ResolveGraphByPath(path)
FollowPath ==
    /\ ~un.done
    /\ un.op = "ResolveGraphByPath"
    /\ \E ord \in Orders : un' = Called(ResolveGraphByPath(PathDoc, un.in, ord))
    /\ RunStays

\* The node a reference stands for: references are followed transparently.
Deref(d, node) ==
    IF node.t = "PDFRef" THEN ResolveReference(d, node, AllKeys) ELSE Ok(node)

RECURSIVE Addressed(_, _, _, _)
\* The value the segments of path from i on address below node: a key of a
\* dictionary, a decimal index of an array, and nothing else.
Addressed(d, node, path, i) ==
    LET cur == Deref(d, node) IN
    IF ~cur.ok THEN cur
    ELSE IF i > Len(path) THEN cur
    ELSE IF cur.v.t = "PDFDict"
    THEN IF path[i] \in DOMAIN cur.v.e
         THEN Addressed(d, cur.v.e[path[i]], path, i + 1)
         ELSE Fail("no such key")
    ELSE IF cur.v.t = "PDFArray"
    THEN LET idx == Atoi(path[i]) IN
         IF idx.ok /\ idx.n >= 0 /\ idx.n < Len(cur.v.a)
         THEN Addressed(d, cur.v.a[idx.n + 1], path, i + 1)
         ELSE Fail("no such index")
    ELSE Fail("no such value")

\* The values a and b are the same node, whatever lies below it was resolved to.
SameNode(a, b) ==
    /\ a.t = b.t
    /\ a.t = "PDFDict" => DOMAIN a.e \ {"_ref"} = DOMAIN b.e \ {"_ref"}
    /\ a.t = "PDFArray" => Len(a.a) = Len(b.a)
    /\ a.t \notin {"PDFDict", "PDFArray"} => a = b

\* C20: ResolveGraphByPath applies every segment in order from the trailer;
\* a value it returns is the one the complete path addresses, never one a
\* proper prefix addresses, and an empty path, a missing key and an index
\* out of range give an error and no value.
C20_CompletePath ==
    Ran("ResolveGraphByPath") =>
        LET want == Addressed(PathDoc, PathDoc.trailer, un.in, 1) IN
        IF un.out.ok
        THEN Len(un.in) > 0 /\ want.ok /\ SameNode(un.out.v, want.v)
        ELSE un.out.v = Nil

\* On the paths that address a value, the value returned is that value.
C20_AddressedPaths ==
    (Ran("ResolveGraphByPath") /\ Len(un.in) > 0
             /\ Addressed(PathDoc, PathDoc.trailer, un.in, 1).ok)
        => /\ un.out.ok
           /\ SameNode(un.out.v, Addressed(PathDoc, PathDoc.trailer, un.in, 1).v)

(***************************************************************************)
(* GetVersion (document.go:130-154) on the header un.in, the HeaderLen      *)
(* bytes Open reads from the start of the file.                             *)
(***************************************************************************)
HeaderLen == 8
\* "%PDF-"
Magic == <<37, 80, 68, 70, 45>>

\* bytes.LastIndexFunc(rest, f) as a 0-based index, -1 when f holds nowhere.
LastIndexFunc(rest, f(_)) ==
    LET hits == {i \in 1..Len(rest) : f(rest[i])}
    IN  IF hits = {} THEN -1
        ELSE (CHOOSE i \in hits : \A j \in hits : j <= i) - 1

GetVersion(d) ==
    LET header == Take(d.head, HeaderLen) IN
    IF ~HasPrefix(header, Magic)
    THEN Fail("invalid file format: missing PDF header")
    ELSE LET rest == SubSeq(header, Len(Magic) + 1, Len(header))
             end == LastIndexFunc(rest, LAMBDA r : r = LF \/ r = CR \/ IsSpace(r))
             version == IF end = -1 THEN rest ELSE SubSeq(rest, 1, end)
         IN  IF version = <<>>
             THEN Fail("invalid PDF header: missing version")
             ELSE Ok(version)

\* The headers: "%PDF-" or "%PDX-", then bytes out of "1", ".", SP, LF and CR.
Headers ==
    LET rests == [1..(HeaderLen - Len(Magic)) -> {49, 46, 32, LF, CR}]
    IN  {m \o r : m \in {Magic, <<37, 80, 68, 88, 45>>}, r \in rests}

\* version, err := doc.GetVersion()
ReadVersion ==
    /\ ~un.done
    /\ un.op = "GetVersion"
    /\ un' = Called(GetVersion([NoDoc EXCEPT !.head = un.in]))
    /\ RunStays

\* The bytes of s before its first whitespace or newline byte.
UpToSpace(s) ==
    LET ws == {i \in 1..Len(s) : IsSpace(s[i])}
    IN  IF ws = {} THEN s
        ELSE SubSeq(s, 1, (CHOOSE i \in ws : \A j \in ws : i <= j) - 1)

VersionAsRequired(header, out) ==
    LET want == UpToSpace(SubSeq(header, Len(Magic) + 1, Len(header))) IN
    IF HasPrefix(header, Magic) /\ want # <<>>
    THEN out.ok /\ out.v = want
    ELSE ~out.ok

\* C21: for a header that begins with %PDF-, GetVersion returns the bytes
\* after the prefix up to the first whitespace or newline byte, all of them
\* when there is none; it returns an error when the prefix is missing or the
\* version is empty.
C21_VersionUpToFirstSpace ==
    Ran("GetVersion") => VersionAsRequired(un.in, un.out)

\* The same on the headers with at most one whitespace byte.
C21_VersionWithOneSpace ==
    (Ran("GetVersion")
        /\ Cardinality({i \in 1..Len(un.in) : IsSpace(un.in[i])}) <= 1)
        => VersionAsRequired(un.in, un.out)

(***************************************************************************)
(* Two successive Verify(A1_B) calls on the Document un.in.  verifyPdfA1b   *)
(* and Verify are taken here as functions of the Document and of the order  *)
(* ord in which the run ranges over maps.                                   *)
(***************************************************************************)
\* verifyPdfA1b (verifier.go:57-118): the issues, or a panic of a check.
VerifyPdfA1b(d, ord) ==
    With(<<VerifyFileHeader(d), VerifyFileTrailer(d),
           VerifyCrossReferenceTable(d),
           VerifyDocumentInformationDictionary(d, ord)>>, LAMBDA before :
    With(ResolveGraph(d, ord), LAMBDA g :
        IF \E i \in 1..Len(before) : before[i].panic THEN Panicked
        ELSE IF ~g.ok THEN Checked(<<ResolutionError(g.err)>>)
        ELSE
    With(BuildPageIndex(g.v), LAMBDA pageIndex :
        IF ~pageIndex.ok THEN Checked(<<ResolutionError(pageIndex.err)>>)
        ELSE
    With(<<Checked(VerifyDocument(g.v, [PageIndex |-> pageIndex.v,
                                        CurrentPage |-> 0, errs |-> <<>>],
                                  ord).errs),
           VerifyIndirectObjects(d), VerifyOptionalContent(d, ord),
           VerifyOutputIntent(d, ord)>>, LAMBDA after :
        IF \E i \in 1..Len(after) : after[i].panic THEN Panicked
        ELSE Checked(Concat([i \in 1..Len(before) |-> before[i].errs])
                     \o Concat([i \in 1..Len(after) |-> after[i].errs]))))))

\* Verify(A1_B) (verifier.go:24-53): the Result, or NoResult with panic set.
VerifyA1B(d, ord) ==
    With(VerifyPdfA1b(d, ord), LAMBDA r :
        IF r.panic THEN [res |-> NoResult, panic |-> TRUE]
        ELSE [res |-> IF Len(r.errs) > 0 THEN Result(A1_B, FALSE, r.errs)
                      ELSE Result(A1_B, TRUE, <<>>),
              panic |-> FALSE])

\* r1, _ := doc.Verify(A1_B); r2, _ := doc.Verify(A1_B)
VerifyTwice ==
    /\ ~un.done
    /\ un.op = "Verify"
    /\ \E run \in {[o \in Orders |-> VerifyA1B(un.in, o)]} :
          \E o1 \in Orders, o2 \in Orders :
              un' = Called([first |-> run[o1], second |-> run[o2],
                            after |-> un.in])
    /\ RunStays

\* The multiset of (clause, subclause) of the issues iss.
IssueBag(iss) ==
    LET keys == {<<iss[i].clause, iss[i].subclause>> : i \in 1..Len(iss)}
    IN  [k \in keys |-> Cardinality({i \in 1..Len(iss) :
                                        <<iss[i].clause, iss[i].subclause>> = k})]

MaxDataLen == 4
\* The byte strings out of CR, LF and "a".
CursorData == UNION {[1..n -> {CR, LF, 97}] : n \in 0..MaxDataLen}

RECURSIVE ReadLines(_, _, _)
\* n calls of ReadLine on a cursor at pos: what each call returned.
ReadLines(data, pos, n) ==
    IF n = 0 THEN <<>>
    ELSE LET l == ReadLine(data, pos) IN
         IF l.panic THEN <<l>>
         ELSE <<l>> \o ReadLines(data, l.pos, n - 1)

\* cur := NewCursor(data); cur.ReadLine(); cur.ReadLine(); ...
ReadAllLines ==
    /\ ~un.done
    /\ un.op = "ReadLine"
    /\ un' = Called(ReadLines(un.in, 0, Len(un.in) + 1))
    /\ RunStays

\* The position before the call i of the calls out.
PosBefore(out, i) == IF i = 1 THEN 0 ELSE out[i - 1].pos

\* The call i on data returned what ReadLine is to return from PosBefore.
LineAsRequired(data, out, i) ==
    LET pos == PosBefore(out, i)
        rest == SubSeq(data, pos + 1, Len(data))
    IN  /\ ~out[i].panic
        /\ out[i].pos <= Len(data)
        /\ IF pos = Len(data)
           THEN ~out[i].ok /\ out[i].line = <<>> /\ out[i].pos = pos
           ELSE /\ out[i].ok
                /\ out[i].line = LineOf(rest)
                /\ out[i].pos = Len(data) - Len(AfterLine(rest))

\* C28: every ReadLine call returns: ("", false) exactly at the end of the
\* data, otherwise true with the bytes up to the next CR, LF or CR LF or to
\* the end of the data, the position moved past the terminator (CR LF
\* counted once) and never beyond the length of the data.
C28_ReadLineTotal ==
    Ran("ReadLine") =>
        /\ Len(un.out) = Len(un.in) + 1
        /\ \A i \in 1..Len(un.out) : LineAsRequired(un.in, un.out, i)

\* The same on data whose last byte is LF.
C28_ReadLineOnTerminatedData ==
    (Ran("ReadLine") /\ Len(un.in) > 0 /\ un.in[Len(un.in)] = LF)
        => /\ Len(un.out) = Len(un.in) + 1
           /\ \A i \in 1..Len(un.out) : LineAsRequired(un.in, un.out, i)

(***************************************************************************)
(* verifyOptionalContent (verifier.go:497-509) on a trailer whose Root is   *)
(* un.in (Nil: no Root), in a file that holds the objects 1..4.             *)
(***************************************************************************)
\* 1: a catalog with OCProperties; 2: a catalog without; 3: an array;
\* 4: the keyword x.
CatalogBodies ==
    (1 :> DictBody(1, ("OCProperties" :> PDFDict(<<1, 1>>, EmptyMap))
                      @@ ("Type" :> PDFName("Catalog"))))
    @@ (2 :> DictBody(2, "Type" :> PDFName("Catalog")))
    @@ (3 :> ArrayBody(3, <<PDFInteger(7)>>))
    @@ (4 :> [kind |-> "token", v |-> Nil, tok |-> "x", endstream |-> FALSE])

\* What the trailer can hold under Root: nothing, a reference to one of the
\* objects or to no object, or a direct dictionary, array or integer.
Roots ==
    {Nil} \cup {PDFRef(n, 0) : n \in DOMAIN CatalogBodies \cup {5}}
    \cup {CatalogBodies[n].v : n \in {1, 2, 3}} \cup {PDFInteger(7)}

CatalogDoc(root) ==
    [NoDoc EXCEPT
        !.trailer = PDFDict(<<0, 0>>,
                        IF root = Nil THEN FileID ELSE FileID @@ ("Root" :> root)),
        !.xrefTable = [n \in DOMAIN CatalogBodies |-> Offset(n)],
        !.file = [o \in {Offset(n) : n \in DOMAIN CatalogBodies} |->
                     CatalogBodies[CHOOSE n \in DOMAIN CatalogBodies : Offset(n) = o]]]

\* errs := doc.verifyOptionalContent()
CheckOptional ==
    /\ ~un.done
    /\ un.op = "verifyOptionalContent"
    /\ \E ord \in Orders :
          un' = Called(VerifyOptionalContent(CatalogDoc(un.in), ord).errs)
    /\ RunStays

\* The document catalog is a dictionary that contains the key OCProperties.
CatalogHasOCProperties(root) ==
    /\ root # Nil
    /\ LET catalog == Deref(CatalogDoc(root), root) IN
       /\ catalog.ok
       /\ IsPDFDict(catalog.v)
       /\ "OCProperties" \in DOMAIN catalog.v.e

\* C30: verifyOptionalContent reports exactly one 6.1.13/1 iff the catalog
\* is a dictionary that contains OCProperties, and nothing when Root is
\* missing, is no dictionary or is a dictionary without OCProperties.
C30_OCPropertiesIffInCatalog ==
    Ran("verifyOptionalContent") =>
        IF CatalogHasOCProperties(un.in)
        THEN /\ Len(un.out) = 1
             /\ un.out[1].clause = "6.1.13"
             /\ un.out[1].subclause = 1
        ELSE un.out = <<>>

\* The same on the documents whose Root is missing or a dictionary.
C30_OCPropertiesOfDictionaries ==
    (Ran("verifyOptionalContent")
        /\ (un.in = Nil \/ ~Deref(CatalogDoc(un.in), un.in).ok
            \/ IsPDFDict(Deref(CatalogDoc(un.in), un.in).v)))
        => C30_OCPropertiesIffInCatalog

(***************************************************************************)
(* One run of ResolveGraph (document.go:201-206) on the Document un.in:    *)
(* whether it succeeded, and the object numbers handed to resolveReference *)
(* in the order of the calls.                                               *)
(***************************************************************************)
\* graph, err := doc.ResolveGraph()
ResolveRun ==
    /\ ~un.done
    /\ un.op = "ResolveGraph"
    /\ \E ord \in Orders :
          LET g == ResolveGraph(un.in, ord)
          IN  un' = Called([ok |-> g.ok, calls |-> g.st.calls])
    /\ RunStays

PageObjects(d) ==
    {n \in DOMAIN d.xrefTable :
        /\ d.file[d.xrefTable[n]].kind = "dict"
        /\ Get(d.file[d.xrefTable[n]].v, "Type") = PDFName("Page")}

\* graph, _ := doc.ResolveGraph()
\* ctx := &ValidationContext{PageIndex: pageIndex}
\* errs := doc.verifyDocument(graph, ctx)
WalkPages ==
    /\ ~un.done
    /\ un.op = "walk"
    /\ LET pages == PageObjects(un.in)
           pageIndex == [n \in pages |->
                            Cardinality({m \in pages : m <= n})]
           c == [NoContext EXCEPT !.PageIndex = pageIndex]
       IN  un' = Called([ord \in Orders |->
                   VerifyDocument(ResolveGraph(un.in, ord).v, c, ord).errs])
    /\ RunStays

\* The ordinal of the Page object n of d.
Ordinal(d, n) == Cardinality({m \in PageObjects(d) : m <= n})

\* The reachable objects of d that hold a forbidden key or a bad hex string.
Faulty(d) ==
    {n \in Reachable(d) \cap DOMAIN d.xrefTable :
        RawErrCount(d.file[d.xrefTable[n]].v) > 0}

\* The pages an error of the traversal of d can be attributed to: the
\* ordinal of a faulty Page object, and, when something outside the Page
\* dictionaries is faulty, 0 or the ordinal of a page around it.
Attributable(d) ==
    {Ordinal(d, n) : n \in Faulty(d) \cap PageObjects(d)}
    \cup (IF Faulty(d) \subseteq PageObjects(d) /\ RawErrCount(d.trailer) = 0
          THEN {}
          ELSE {0} \cup {Ordinal(d, n) : n \in PageObjects(d)})

PageBag(errs) ==
    LET key(i) == <<errs[i].clause, errs[i].subclause, errs[i].page>>
    IN  [k \in {key(i) : i \in 1..Len(errs)} |->
            Cardinality({i \in 1..Len(errs) : key(i) = k})]

\* C25: every PDFError of the traversal carries the ordinal PageIndex gives
\* for the enclosing Page dictionary, 0 outside every page, and the pages
\* the errors carry do not depend on the order of the dictionary entries.
C25_PageOfEnclosingPage ==
    Ran("walk") =>
        /\ \A ord \in Orders : \A i \in 1..Len(un.out[ord]) :
              un.out[ord][i].page \in Attributable(un.in)
        /\ PageBag(un.out[AllKeys]) = PageBag(un.out[Reverse(AllKeys)])

\* Without a Page dictionary in the file every PDFError carries page 0, and
\* every page an error carries is 0 or the ordinal of a Page object.
C25_PageOutOfIndex ==
    Ran("walk") =>
        \A ord \in Orders : \A i \in 1..Len(un.out[ord]) :
            /\ un.out[ord][i].page \in
                  {0} \cup {Ordinal(un.in, n) : n \in PageObjects(un.in)}
            /\ PageObjects(un.in) = {} => un.out[ord][i].page = 0

(***************************************************************************)
(* The lexer (lexer.go).  A Lexer is the bytes of its reader, the number    *)
(* pos of bytes read, and the stack pushed of tokens handed back.  A token  *)
(* holds its type and the bytes of its value.                               *)
(***************************************************************************)
Token(type, value) == [Type |-> type, Value |-> value]
NewLexer(data) == [data |-> data, pos |-> 0, pushed |-> <<>>]

\* "()<>[]{}/%"
isDelimiter(ch) == ch \in {40, 41, 60, 62, 91, 93, 123, 125, 47, 37}
\* unicode.IsDigit and unicode.IsLetter on a byte taken as a rune.
IsDigit(ch) == ch \in 48..57
IsLetter(ch) ==
    ch \in (65..90) \cup (97..122) \cup {170, 181, 186} \cup (192..214)
           \cup (216..246) \cup (248..255)

\* A loop of readByte calls from pos on: the number of bytes read before the
\* first byte that stops the loop, the whole rest when none does.
Scan(data, pos, stop(_)) ==
    LET hits == {i \in (pos + 1)..Len(data) : stop(data[i])}
    IN  IF hits = {} THEN Len(data) - pos
        ELSE (CHOOSE i \in hits : \A j \in hits : i <= j) - pos - 1

\* skipWhitespace: the first byte that is no whitespace is unread.
skipWhitespace(l) ==
    [l EXCEPT !.pos = @ + Scan(l.data, @, LAMBDA b : ~isWhitespace(b))]

\* readName and the loop of readKeyword: the bytes up to a delimiter or a
\* whitespace byte, which is unread.
readRegular(l) ==
    LET n == Scan(l.data, l.pos, LAMBDA b : isDelimiter(b) \/ isWhitespace(b))
    IN  [buf |-> SubSeq(l.data, l.pos + 1, l.pos + n),
         l |-> [l EXCEPT !.pos = @ + n]]

readName(l) ==
    [tok |-> Token("Name", readRegular(l).buf), l |-> readRegular(l).l]

readKeyword(l) ==
    LET val == readRegular(l).buf IN
    [tok |-> Token(IF val = <<116, 114, 117, 101>> \/ val = <<102, 97, 108, 115, 101>>
                   THEN "Boolean" ELSE "Keyword", val),
     l |-> readRegular(l).l]

readNumber(l) ==
    LET n == Scan(l.data, l.pos,
                  LAMBDA b : ~IsDigit(b) /\ b \notin {46, 43, 45})
        buf == SubSeq(l.data, l.pos + 1, l.pos + n)
        isReal == \E i \in 1..Len(buf) : buf[i] = 46
    IN  [tok |-> Token(IF isReal THEN "Real" ELSE "Integer", buf),
         l |-> [l EXCEPT !.pos = @ + n]]

RECURSIVE readStringLiteral(_, _, _)
\* readStringLiteral with buf and depth as the loop has left them.
readStringLiteral(l, buf, depth) ==
    IF l.pos >= Len(l.data)
    THEN [tok |-> Token("Error", <<85, 110, 116, 101, 114, 109, 105, 110, 97, 116, 101, 100, 32, 83, 116, 114, 105, 110, 103, 58, 32, 69, 79, 70>>), l |-> l]
    ELSE LET b == l.data[l.pos + 1]
             l1 == [l EXCEPT !.pos = @ + 1]
         IN  IF b = 41 /\ depth = 1
             THEN [tok |-> Token("String", buf), l |-> l1]
             ELSE readStringLiteral(l1, Append(buf, b),
                                    CASE b = 40 -> depth + 1
                                      [] b = 41 -> depth - 1
                                      [] OTHER -> depth)

\* readHexString with a 0 appended to an odd number of digits.
readHexStringPadded(l) ==
    LET n == Scan(l.data, l.pos,
                  LAMBDA b : b = 62 \/ (~isWhitespace(b) /\ ~isHexDigit(b)))
        buf == SelectSeq(SubSeq(l.data, l.pos + 1, l.pos + n),
                         LAMBDA b : ~isWhitespace(b))
    IN  IF l.pos + n >= Len(l.data) \/ l.data[l.pos + n + 1] # 62
        THEN [tok |-> Token("Error", <<>>), l |-> [l EXCEPT !.pos = Len(l.data)]]
        ELSE [tok |-> Token("HexString",
                            IF Len(buf) % 2 = 1 THEN Append(buf, 48) ELSE buf),
              l |-> [l EXCEPT !.pos = @ + n + 1]]

\* readHexString: the bytes read up to ">", whitespace left out.
readHexString(l) ==
    LET n == Scan(l.data, l.pos,
                  LAMBDA b : b = 62 \/ (~isWhitespace(b) /\ ~isHexDigit(b)))
        read == SubSeq(l.data, l.pos + 1, l.pos + n)
    IN  IF l.pos + n >= Len(l.data)
        THEN [tok |-> Token("Error", 
              <<85, 110, 116, 101, 114, 109, 105, 110, 97, 116, 101, 100, 32, 104, 101, 120, 32, 115, 116, 114, 105, 110, 103>>),
              l |-> [l EXCEPT !.pos = Len(l.data)]]
        ELSE IF l.data[l.pos + n + 1] # 62
        THEN [tok |-> Token("Error", 
              <<73, 110, 118, 97, 108, 105, 100, 32, 99, 104, 97, 114, 97, 99, 116, 101, 114, 32, 105, 110, 32, 104, 101, 120, 32, 115, 116, 114, 105, 110, 103>>),
              l |-> [l EXCEPT !.pos = @ + n + 1]]
        ELSE [tok |-> Token("HexString",
                            SelectSeq(read, LAMBDA b : ~isWhitespace(b))),
              l |-> [l EXCEPT !.pos = @ + n + 1]]

RECURSIVE NextToken(_)
NextToken(l) ==
    IF Len(l.pushed) > 0
    THEN [tok |-> l.pushed[Len(l.pushed)],
          l |-> [l EXCEPT !.pushed = SubSeq(@, 1, Len(@) - 1)]]
    ELSE LET s == skipWhitespace(l) IN
    IF s.pos >= Len(s.data) THEN [tok |-> Token("EOF", <<>>), l |-> s]
    ELSE LET ch == s.data[s.pos + 1]
             l1 == [s EXCEPT !.pos = @ + 1]
             more == l1.pos < Len(l1.data)
             l2 == [l1 EXCEPT !.pos = @ + 1]
         IN  CASE ch = 37 ->
                    LET n == Scan(l1.data, l1.pos, LAMBDA b : b = LF \/ b = CR)
                        end == l1.pos + n + 1
                    IN  NextToken([l1 EXCEPT !.pos =
                            IF end > Len(l1.data) THEN Len(l1.data) ELSE end])
               [] ch = 47 -> readName(l1)
               [] ch = 40 -> readStringLiteral(l1, <<>>, 1)
               [] ch = 60 ->
                    IF more /\ l1.data[l1.pos + 1] = 60
                    THEN [tok |-> Token("DictStart", <<60, 60>>), l |-> l2]
                    ELSE readHexString(l1)
               [] ch = 62 ->
                    IF more /\ l1.data[l1.pos + 1] = 62
                    THEN [tok |-> Token("DictEnd", <<62, 62>>), l |-> l2]
                    ELSE [tok |-> Token("Error", <<62>>), l |-> l1]
               [] ch = 91 -> [tok |-> Token("ArrayStart", <<91>>), l |-> l1]
               [] ch = 93 -> [tok |-> Token("ArrayEnd", <<93>>), l |-> l1]
               [] IsDigit(ch) \/ ch \in {43, 45, 46} -> readNumber(s)
               [] IsLetter(ch) -> readKeyword(s)
               [] OTHER -> [tok |-> Token("Error", <<ch>>), l |-> l1]

\* UnreadToken on a queue: the token handed back first is returned first.
UnreadTokenQueued(l, t) == [l EXCEPT !.pushed = <<t>> \o @]

UnreadToken(l, t) == [l EXCEPT !.pushed = Append(@, t)]

(***************************************************************************)
(* The parser (parseObject, parseDictionary and parseArray).  A call        *)
(* returns ok, the value v and the lexer l as the call has left it.         *)
(***************************************************************************)
\* strconv.ParseInt(s, 10, 64) and strconv.Atoi on the bytes s: an optional
\* sign and one or more decimal digits.
ParseInt(s) ==
    LET signed == Len(s) > 0 /\ s[1] \in {43, 45}
        digits == IF signed THEN Tail(s) ELSE s
        RECURSIVE Value(_)
        Value(n) == IF n = 0 THEN 0 ELSE 10 * Value(n - 1) + (digits[n] - 48)
    IN  IF digits = <<>> \/ \E i \in 1..Len(digits) : ~IsDigit(digits[i])
        THEN [ok |-> FALSE, n |-> 0]
        ELSE [ok |-> TRUE,
              n |-> IF signed /\ s[1] = 45 THEN 0 - Value(Len(digits))
                    ELSE Value(Len(digits))]

\* strconv.ParseFloat on the bytes readNumber reads (digits, ".", "+", "-"):
\* the number as its digits without the point and the count of the digits
\* after the point.
ParseFloat(s) ==
    LET dots == {i \in 1..Len(s) : s[i] = 46}
        dot == IF dots = {} THEN Len(s) + 1 ELSE CHOOSE i \in dots : TRUE
        frac == SubSeq(s, dot + 1, Len(s))
        int == ParseInt(SubSeq(s, 1, dot - 1) \o frac)
        RECURSIVE Shorter(_, _)
        Shorter(n, places) ==
            IF places > 0 /\ n % 10 = 0 THEN Shorter(n \div 10, places - 1)
            ELSE <<n, places>>
    IN  IF Cardinality(dots) > 1 \/ ~int.ok
           \/ \E i \in 1..Len(frac) : ~IsDigit(frac[i])
        THEN [ok |-> FALSE, n |-> <<0, 0>>]
        ELSE [ok |-> TRUE, n |-> Shorter(int.n, Len(frac))]

RECURSIVE parseObject(_, _)
RECURSIVE parseDictionary(_, _)
RECURSIVE parseArray(_, _)

parseObject(l, tok) ==
    CASE tok.Type \in {"Keyword", "Name"} ->
           [ok |-> TRUE, v |-> PDFName(tok.Value), l |-> l]
      [] tok.Type = "Boolean" ->
           [ok |-> TRUE, v |-> PDFBoolean(tok.Value = <<116, 114, 117, 101>>),
            l |-> l]
      [] tok.Type = "Integer" ->
           With(NextToken(l), LAMBDA n2 :
           With(NextToken(n2.l), LAMBDA n3 :
               LET tok2 == n2.tok
                   tok3 == n3.tok
               IN  IF tok2.Type = "Integer" /\ tok3 = Token("Keyword", <<82>>)
                   THEN [ok |-> TRUE,
                         v |-> PDFRef(ParseInt(tok.Value).n,
                                      ParseInt(tok2.Value).n),
                         l |-> n3.l]
                   ELSE [ok |-> TRUE, v |-> PDFInteger(ParseInt(tok.Value).n),
                         l |-> UnreadToken(UnreadToken(n3.l, tok3), tok2)]))
      [] tok.Type = "Real" ->
           IF ParseFloat(tok.Value).ok
           THEN [ok |-> TRUE, v |-> PDFReal(ParseFloat(tok.Value).n), l |-> l]
           ELSE [ok |-> FALSE, v |-> Nil, l |-> l]
      [] tok.Type = "String" -> [ok |-> TRUE, v |-> PDFString(tok.Value), l |-> l]
      [] tok.Type = "HexString" ->
           [ok |-> TRUE, v |-> PDFHexString(tok.Value), l |-> l]
      [] tok.Type = "ArrayStart" -> parseArray(l, <<>>)
      [] tok.Type = "DictStart" -> parseDictionary(l, EmptyMap)
      [] OTHER -> [ok |-> FALSE, v |-> Nil, l |-> l]

\* parseDictionary with dict as the loop has left it.
parseDictionary(l, dict) ==
    With(NextToken(l), LAMBDA k :
    CASE k.tok.Type = "DictEnd" ->
           [ok |-> TRUE, v |-> PDFDict(<<k.l.pos>>, dict), l |-> k.l]
      [] k.tok.Type = "DictStart" -> parseDictionary(k.l, dict)
      [] k.tok.Type = "Name" ->
           With(NextToken(k.l), LAMBDA t :
           With(parseObject(t.l, t.tok), LAMBDA elem :
               IF ~elem.ok
               THEN [ok |-> FALSE, v |-> PDFDict(<<elem.l.pos>>, dict),
                     l |-> elem.l]
               ELSE With(Put(dict, k.tok.Value, elem.v), LAMBDA next :
                        parseDictionary(elem.l, next))))
      [] OTHER -> [ok |-> FALSE, v |-> PDFDict(<<k.l.pos>>, dict), l |-> k.l])

\* parseArray with arr as the loop has left it.
parseArray(l, arr) ==
    With(NextToken(l), LAMBDA t :
    CASE t.tok.Type = "ArrayEnd" ->
           [ok |-> TRUE, v |-> PDFArray(<<t.l.pos>>, arr), l |-> t.l]
      [] t.tok.Type = "EOF" -> [ok |-> FALSE, v |-> Nil, l |-> t.l]
      [] OTHER ->
           With(parseObject(t.l, t.tok), LAMBDA elem :
               IF ~elem.ok THEN [ok |-> FALSE, v |-> Nil, l |-> elem.l]
               ELSE With(Append(arr, elem.v), LAMBDA next :
                        parseArray(elem.l, next))))

(***************************************************************************)
(* The first NextToken call of a lexer on the bytes un.in, which begin with *)
(* "<" (lexer.go:81-89, 238-259).                                           *)
(***************************************************************************)
MaxHexInput == 4

\* "<", then up to MaxHexInput bytes out of "<", ">", "A", "7", SP and "g".
HexInputs ==
    UNION {{<<60>> \o r : r \in [1..n -> {60, 62, 65, 55, 32, 103}]} :
              n \in 0..MaxHexInput}

\* l := NewLexer(bytes.NewReader(data)); tok := l.NextToken()
LexHex ==
    /\ ~un.done
    /\ un.op = "NextToken"
    /\ un' = Called(NextToken(NewLexer(un.in)).tok)
    /\ RunStays

\* C29: "<<" yields DictStart; a lone "<" yields a HexString token with the
\* hex digits read up to ">" in their order, whitespace removed and an odd
\* count kept, or an Error token when a byte before ">" is neither a hex
\* digit nor whitespace or when the input ends before ">"; a HexString token
\* holds hex digits only.
C29_HexStringToken ==
    Ran("NextToken") =>
        LET rest == Tail(un.in)
            closing == {i \in 1..Len(rest) : rest[i] = 62}
            body == SubSeq(rest, 1,
                           (CHOOSE i \in closing : \A j \in closing : i <= j) - 1)
        IN  /\ IF rest # <<>> /\ rest[1] = 60
               THEN un.out = Token("DictStart", <<60, 60>>)
               ELSE IF closing = {}
                       \/ \E i \in 1..Len(body) :
                             ~isHexDigit(body[i]) /\ ~isWhitespace(body[i])
               THEN un.out.Type = "Error"
               ELSE un.out = Token("HexString", SelectSeq(body, isHexDigit))
            /\ un.out.Type = "HexString" =>
                  \A i \in 1..Len(un.out.Value) : isHexDigit(un.out.Value[i])

\* "<A >" yields the HexString A: one digit, the space removed.
C29_Witness ==
    /\ Ran("NextToken")
    /\ un.in = <<60, 65, 32, 62>>
    /\ un.out = Token("HexString", <<65>>)

(***************************************************************************)
(* Successive parseObject calls on one lexer over the bytes un.in, as the   *)
(* loops of parseArray and parseDictionary make them: for each call the     *)
(* tokens the lexer had yet to return before it, the result, and the tokens *)
(* the lexer has yet to return after it.                                    *)
(***************************************************************************)
MaxWords == 5

\* Up to MaxWords of "1", "2" and "R" with a space after each, as they are,
\* after "[", or between "[" and "]".
WordInputs ==
    LET RECURSIVE Join(_)
        Join(ws) == IF ws = <<>> THEN <<>> ELSE <<Head(ws), 32>> \o Join(Tail(ws))
        bare == UNION {{Join(ws) : ws \in [1..n -> {49, 50, 82}]} :
                          n \in 0..MaxWords}
    IN  bare \cup {<<91, 32>> \o b : b \in bare}
             \cup {<<91, 32>> \o b \o <<93>> : b \in bare}

RECURSIVE Drain(_)
\* The tokens the NextToken calls on l return, up to the end of the input.
Drain(l) ==
    With(NextToken(l), LAMBDA t :
        IF t.tok.Type = "EOF" /\ t.l.pushed = <<>> THEN <<>>
        ELSE <<t.tok>> \o Drain(t.l))

RECURSIVE ObjectSteps(_)
\* tok := l.NextToken(); v, err := parseObject(l, tok), until the end of the
\* input or an error.
ObjectSteps(l) ==
    With(NextToken(l), LAMBDA t :
    With(parseObject(t.l, t.tok), LAMBDA r :
        LET step == [tok |-> t.tok, before |-> Drain(l), ok |-> r.ok,
                     v |-> r.v, after |-> Drain(r.l)]
        IN  IF t.tok.Type = "EOF" THEN <<>>
            ELSE IF ~r.ok THEN <<step>>
            ELSE <<step>> \o ObjectSteps(r.l)))

ParseObjects ==
    /\ ~un.done
    /\ un.op = "parseObject"
    /\ \E l \in {NewLexer(un.in)} : un' = Called(ObjectSteps(l))
    /\ RunStays

\* The tokens s without the EOF tokens at its end.
BeforeEOF(s) ==
    LET real == {i \in 1..Len(s) : s[i].Type # "EOF"}
    IN  IF real = {} THEN <<>>
        ELSE SubSeq(s, 1, CHOOSE i \in real : \A j \in real : j <= i)

\* The token i of s, EOF past its end.
TokenAt(s, i) == IF i <= Len(s) THEN s[i] ELSE Token("EOF", <<>>)

\* An Integer, an Integer and the keyword R begin the tokens s.
IsRefAt(s) ==
    /\ TokenAt(s, 1).Type = "Integer"
    /\ TokenAt(s, 2).Type = "Integer"
    /\ TokenAt(s, 3) = Token("Keyword", <<82>>)

RECURSIVE Grouped(_)
\* The values of the tokens s, all integers and keywords, read from the left:
\* Integer Integer R is a reference.
Grouped(s) ==
    IF s = <<>> THEN <<>>
    ELSE IF IsRefAt(s)
    THEN <<PDFRef(ParseInt(s[1].Value).n, ParseInt(s[2].Value).n)>>
         \o Grouped(SubSeq(s, 4, Len(s)))
    ELSE <<IF s[1].Type = "Integer" THEN PDFInteger(ParseInt(s[1].Value).n)
           ELSE PDFName(s[1].Value)>>
         \o Grouped(Tail(s))

\* C26: parseObject on an Integer token returns a Ref when an Integer and
\* the keyword R follow, and the Integer otherwise; the tokens the lexer
\* returns afterwards are those that follow the value, in their order, as
\* though no token had been looked at, also when look-aheads follow each
\* other; the elements of an array are read in the same way.
C26_LookAheadRestored ==
    Ran("parseObject") =>
        \A i \in 1..Len(un.out) :
            LET s == un.out[i] IN
            /\ s.tok.Type = "Integer" =>
                  /\ s.ok
                  /\ s.before[1] = s.tok
                  /\ IF IsRefAt(s.before)
                     THEN /\ s.v = PDFRef(ParseInt(s.tok.Value).n,
                                          ParseInt(s.before[2].Value).n)
                          /\ BeforeEOF(s.after) = SubSeq(s.before, 4, Len(s.before))
                     ELSE /\ s.v = PDFInteger(ParseInt(s.tok.Value).n)
                          /\ BeforeEOF(s.after) = Tail(s.before)
            /\ (s.tok.Type = "ArrayStart"
                    /\ s.before[Len(s.before)].Type = "ArrayEnd") =>
                  /\ s.ok
                  /\ s.v.a = Grouped(SubSeq(s.before, 2, Len(s.before) - 1))
                  /\ BeforeEOF(s.after) = <<>>

\* "1 2 1 R" is read as the Integer 1 and the Ref 2 1: the second call
\* begins with the two tokens the first one handed back.
C26_Witness ==
    /\ Ran("parseObject")
    /\ un.in = <<49, 32, 50, 32, 49, 32, 82, 32>>
    /\ Len(un.out) = 2
    /\ un.out[1].v = PDFInteger(1)
    /\ Len(un.out[1].after) = 3
    /\ un.out[2].v = PDFRef(2, 1)

(***************************************************************************)
(* parseXRefTable (part_005:12-67) on the bytes of a file, from offset on.  *)
(***************************************************************************)
\* strings.Fields: the maximal runs of bytes that are no white space.
Fields(s) ==
    LET RECURSIVE F(_, _)
        F(i, cur) ==
            IF i > Len(s) THEN (IF cur = <<>> THEN <<>> ELSE <<cur>>)
            ELSE IF IsSpace(s[i])
            THEN (IF cur = <<>> THEN <<>> ELSE <<cur>>) \o F(i + 1, <<>>)
            ELSE F(i + 1, Append(cur, s[i]))
    IN  F(1, <<>>)

\* bufio.Reader.ReadLine at pos: the bytes up to the next LF without the LF
\* and a CR before it, the rest of the input when no LF follows, and io.EOF
\* at the end of the input.
bufioReadLine(data, pos) ==
    LET n == Scan(data, pos, LAMBDA b : b = LF)
        ended == pos + n < Len(data)
        cut == IF ended /\ n > 0 /\ data[pos + n] = CR THEN n - 1 ELSE n
    IN  [ok |-> pos < Len(data),
         line |-> SubSeq(data, pos + 1, pos + cut),
         pos |-> IF ended THEN pos + n + 1 ELSE Len(data)]

RowLen == 20
FlagAt == 17
OffsetLen == 10

\* The rows of a subsection with every row recorded, whatever its flag.
readRowsAnyFlag(data, pos, startObjID, numObjs, xrefTable) ==
    LET whole == {i \in 0..(numObjs - 1) : pos + RowLen * (i + 1) <= Len(data)}
        row(i) == SubSeq(data, pos + RowLen * i + 1, pos + RowLen * (i + 1))
    IN  [ok |-> \A i \in 0..(numObjs - 1) : i \in whole,
         pos |-> pos + RowLen * Cardinality(whole),
         xrefTable |->
             [k \in DOMAIN xrefTable \cup {startObjID + i : i \in whole} |->
                 IF k - startObjID \in whole
                 THEN ParseInt(Take(row(k - startObjID), OffsetLen)).n
                 ELSE xrefTable[k]]]

\* for i := range numObjs: the rows of RowLen bytes read with io.ReadFull,
\* up to the first one the input does not hold in full.
readRows(data, pos, startObjID, numObjs, xrefTable) ==
    LET whole == {i \in 0..(numObjs - 1) : pos + RowLen * (i + 1) <= Len(data)}
        row(i) == SubSeq(data, pos + RowLen * i + 1, pos + RowLen * (i + 1))
        used == {i \in whole : row(i)[FlagAt + 1] = 110}
    IN  [ok |-> \A i \in 0..(numObjs - 1) : i \in whole,
         pos |-> pos + RowLen * Cardinality(whole),
         xrefTable |->
             [k \in DOMAIN xrefTable \cup {startObjID + i : i \in used} |->
                 IF k - startObjID \in used
                 THEN ParseInt(Take(row(k - startObjID), OffsetLen)).n
                 ELSE xrefTable[k]]]

RECURSIVE readSubsections(_, _, _)
\* The loop of parseXRefTable with the reader at pos.
readSubsections(data, pos, xrefTable) ==
    IF pos >= Len(data) THEN [ok |-> FALSE, xrefTable |-> xrefTable]
    ELSE IF data[pos + 1] = 116 THEN [ok |-> TRUE, xrefTable |-> xrefTable]
    ELSE With(bufioReadLine(data, pos), LAMBDA l :
         With(Fields(l.line), LAMBDA parts :
             IF Len(parts) # 2 THEN [ok |-> TRUE, xrefTable |-> xrefTable]
             ELSE With(readRows(data, l.pos, ParseInt(parts[1]).n,
                                ParseInt(parts[2]).n, xrefTable),
                       LAMBDA rows :
                           IF ~rows.ok
                           THEN [ok |-> FALSE, xrefTable |-> rows.xrefTable]
                           ELSE readSubsections(data, rows.pos, rows.xrefTable))))

\* A Seek before the start of the file fails; one past its end does not,
\* and the first ReadLine then returns io.EOF.
parseXRefTable(data, offset) ==
    LET l == bufioReadLine(data, offset) IN
    IF offset < 0 \/ offset >= Len(data) \/ l.line # <<120, 114, 101, 102>>
    THEN [ok |-> FALSE, xrefTable |-> EmptyMap]
    ELSE readSubsections(data, l.pos, EmptyMap)

(***************************************************************************)
(* parseXRefTable on a cross reference section un.in: its subsections, each *)
(* with a first object number and rows of an offset and a flag, and the     *)
(* bytes that follow the last row.                                          *)
(***************************************************************************)
MaxRows == 2

\* Up to two subsections that begin at object 0 or 1, with up to MaxRows
\* rows (offset 17 or 123 in use, offset 17 free), followed by "trailer", an
\* empty line, a line of one field, a line of three fields, or nothing.
XrefSections ==
    LET rows == UNION {[1..n -> {[offset |-> 17, flag |-> 110],
                                 [offset |-> 123, flag |-> 110],
                                 [offset |-> 17, flag |-> 102]}] :
                          n \in 0..MaxRows}
        subs == {[start |-> s, rows |-> r] : s \in {0, 1}, r \in rows}
    IN  {[subs |-> ss, ending |-> e] :
            ss \in {<<>>} \cup {<<a>> : a \in subs}
                          \cup {<<a, b>> : a, b \in subs},
            e \in {<<116, 114, 97, 105, 108, 101, 114, LF>>, <<10>>, <<55, 10>>,
                   <<49, 32, 50, 32, 51, 10>>, <<>>}}

\* The decimal digits of n, at least width of them.
Decimal(n, width) ==
    LET RECURSIVE D(_, _)
        D(m, w) == IF m = 0 /\ w <= 0 THEN <<>>
                   ELSE Append(D(m \div 10, w - 1), 48 + (m % 10))
    IN  D(n, width)

\* The bytes of the section x: "xref", then for each subsection the line
\* "start count" and the rows "oooooooooo 00000 f" SP LF.
XrefBytes(x) ==
    LET RECURSIVE Rows(_)
        Rows(rs) ==
            IF rs = <<>> THEN <<>>
            ELSE Decimal(Head(rs).offset, OffsetLen) \o <<32>> \o Decimal(0, 5)
                 \o <<32, Head(rs).flag, 32, LF>> \o Rows(Tail(rs))
        RECURSIVE Subs(_)
        Subs(ss) ==
            IF ss = <<>> THEN <<>>
            ELSE Decimal(Head(ss).start, 1) \o <<32>>
                 \o Decimal(Len(Head(ss).rows), 1) \o <<LF>>
                 \o Rows(Head(ss).rows) \o Subs(Tail(ss))
    IN  <<120, 114, 101, 102>> \o <<LF>> \o Subs(x.subs) \o x.ending

\* err := d.parseXRefTable(0)
ParseXref ==
    /\ ~un.done
    /\ un.op = "parseXRefTable"
    /\ \E data \in {XrefBytes(un.in)} : un' = Called(parseXRefTable(data, 0))
    /\ RunStays

TailSize == 1500

\* bytes.LastIndex(s, sep) as a 0-based index, -1 when sep is not in s.
LastIndex(s, sep) ==
    LET hits == {i \in 0..(Len(s) - Len(sep)) :
                    SubSeq(s, i + 1, i + Len(sep)) = sep}
    IN  IF hits = {} THEN -1 ELSE CHOOSE i \in hits : \A j \in hits : j <= i

initializeStructure(data) ==
    LET tailSize == IF Len(data) < TailSize THEN Len(data) ELSE TailSize IN
    With(SubSeq(data, Len(data) - tailSize + 1, Len(data)), LAMBDA tail :
    With(LastIndex(tail, <<115, 116, 97, 114, 116, 120, 114, 101, 102>>), LAMBDA startXrefIdx :
    With(Fields(SubSeq(tail, startXrefIdx + 10, Len(tail))), LAMBDA tokens :
        IF startXrefIdx = -1 THEN Fail("startxref not found")
        ELSE IF tokens = <<>> THEN Fail("startxref offset missing")
        ELSE IF ~ParseInt(tokens[1]).ok
        THEN Fail("could not parse startxref offset")
        ELSE
    With(parseXRefTable(data, ParseInt(tokens[1]).n), LAMBDA xref :
    With(SubSeq(tail, 1, startXrefIdx), LAMBDA searchBlock :
    With(LastIndex(searchBlock, <<116, 114, 97, 105, 108, 101, 114>>), LAMBDA trailerIdx :
        IF ~xref.ok THEN Fail("failed to parse xref table")
        ELSE IF trailerIdx = -1 THEN Fail("trailer keyword not found")
        ELSE
    With(NextToken(NewLexer(SubSeq(searchBlock, trailerIdx + 1,
                                   Len(searchBlock)))), LAMBDA first :
        IF first.tok.Value # <<116, 114, 97, 105, 108, 101, 114>>
        THEN Fail("expected 'trailer' keyword")
        ELSE
    With(parseDictionary(first.l, EmptyMap), LAMBDA trailer :
        IF ~trailer.ok THEN Fail("failed to parse trailer dictionary")
        ELSE Ok([trailer |-> trailer.v, xrefTable |-> xref.xrefTable,
                 xrefOffset |-> ParseInt(tokens[1]).n])))))))))

\* Open with the file handle left open when initializeStructure fails.
OpenLeaking(data) ==
    IF Len(data) < HeaderLen
    THEN [ok |-> FALSE, doc |-> NoDoc, closed |-> TRUE]
    ELSE With(initializeStructure(data), LAMBDA s :
         IF ~s.ok THEN [ok |-> FALSE, doc |-> NoDoc, closed |-> FALSE]
         ELSE [ok |-> TRUE, closed |-> FALSE,
               doc |-> [NoDoc EXCEPT !.head = Take(data, HeaderLen),
                                     !.trailer = s.v.trailer,
                                     !.xrefTable = s.v.xrefTable]])

\* Open on an existing file: f.ReadAt(header, 0) fails on a file of less than
\* HeaderLen bytes; f.Close() is called before an error is returned.
Open(data) ==
    IF Len(data) < HeaderLen
    THEN [ok |-> FALSE, doc |-> NoDoc, closed |-> TRUE]
    ELSE With(initializeStructure(data), LAMBDA s :
         IF ~s.ok THEN [ok |-> FALSE, doc |-> NoDoc, closed |-> TRUE]
         ELSE [ok |-> TRUE, closed |-> FALSE,
               doc |-> [NoDoc EXCEPT !.head = Take(data, HeaderLen),
                                     !.trailer = s.v.trailer,
                                     !.xrefTable = s.v.xrefTable]])

\* The files: "%PDF" alone, the text "Not a PDF file", and the files made of
\* the header "%PDF-1.4", a cross reference section, a trailer and the
\* startxref lines, each as it should be ("good") or with one thing wrong.
OpenInputs ==
    {[head |-> h, xref |-> "good", trailer |-> "good", startxref |-> "good"] :
        h \in {"short", "text"}}
    \cup {[head |-> "full", xref |-> x, trailer |-> t, startxref |-> s] :
            x \in {"good", "no keyword", "one field", "short rows"},
            t \in {"good", "no keyword", "unterminated", "no key"},
            s \in {"good", "no keyword", "no offset", "no number"}}

FileBytes(f) ==
    LET head == <<37, 80, 68, 70, 45, 49, 46, 52, LF>>
        xref == CASE f.xref = "good" -> <<120, 114, 101, 102, LF, 48, 32, 50, LF, 48, 48, 48, 48,
                 48, 48, 48, 48, 48, 48, 32, 54, 53, 53, 51, 53, 32, 102,
                 32, LF, 48, 48, 48, 48, 48, 48, 48, 48, 48, 57, 32, 48,
                 48, 48, 48, 48, 32, 110, 32, LF>>
                  [] f.xref = "no keyword" -> <<120, 114, 101, 120, LF, 48, 32, 50, LF, 48, 48, 48, 48,
                 48, 48, 48, 48, 48, 48, 32, 54, 53, 53, 51, 53, 32, 102,
                 32, LF, 48, 48, 48, 48, 48, 48, 48, 48, 48, 57, 32, 48,
                 48, 48, 48, 48, 32, 110, 32, LF>>
                  [] f.xref = "one field" -> <<120, 114, 101, 102, LF, 48, LF, 48, 48, 48, 48, 48, 48,
                 48, 48, 48, 48, 32, 54, 53, 53, 51, 53, 32, 102, 32, LF,
                 48, 48, 48, 48, 48, 48, 48, 48, 48, 57, 32, 48, 48, 48,
                 48, 48, 32, 110, 32, LF>>
                  [] f.xref = "short rows" -> <<120, 114, 101, 102, LF, 48, 32, 57, LF, 48, 48, 48, 48,
                 48, 48, 48, 48, 48, 48, 32, 54, 53, 53, 51, 53, 32, 102,
                 32, LF, 48, 48, 48, 48, 48, 48, 48, 48, 48, 57, 32, 48,
                 48, 48, 48, 48, 32, 110, 32, LF>>
        trailer == CASE f.trailer = "good" -> <<116, 114, 97, 105, 108, 101, 114, LF, 60, 60, 32, 47, 82,
                 111, 111, 116, 32, 49, 32, 48, 32, 82, 32, 62, 62, LF>>
                     [] f.trailer = "no keyword" -> <<60, 60, 32, 47, 82, 111, 111, 116, 32, 49, 32, 48, 32,
                 82, 32, 62, 62, LF>>
                     [] f.trailer = "unterminated" -> <<116, 114, 97, 105, 108, 101, 114, LF, 60, 60, 32, 47, 82,
                 111, 111, 116, 32, 49, 32, 48, 32, 82, LF>>
                     [] f.trailer = "no key" -> <<116, 114, 97, 105, 108, 101, 114, LF, 60, 60, 32, 53, 32,
                 62, 62, LF>>
        offset == Decimal(Len(head), 1)
        startxref == CASE f.startxref = "good" ->
                            <<115, 116, 97, 114, 116, 120, 114, 101, 102>> \o <<LF>> \o offset \o <<LF>> \o <<37, 37, 69, 79, 70, LF>>
                       [] f.startxref = "no keyword" -> offset \o <<LF>> \o <<37, 37, 69, 79, 70, LF>>
                       [] f.startxref = "no offset" -> <<115, 116, 97, 114, 116, 120, 114, 101, 102>> \o <<LF>>
                       [] f.startxref = "no number" ->
                            <<115, 116, 97, 114, 116, 120, 114, 101, 102>> \o <<LF>> \o <<37, 37, 69, 79, 70, LF>>
    IN  CASE f.head = "short" -> <<37, 80, 68, 70>>
          [] f.head = "text" -> <<78, 111, 116, 32, 97, 32, 80, 68, 70, 32, 102, 105, 108,
                 101>>
          [] OTHER -> head \o xref \o trailer \o startxref

\* doc, err := Open(path)
OpenFile ==
    /\ ~un.done
    /\ un.op = "Open"
    /\ \E data \in {FileBytes(un.in)} : un' = Called(Open(data))
    /\ RunStays

\* Open returns a Document with its handle open, or no Document, an error
\* and the handle closed.
EitherDocumentOrError ==
    IF un.out.ok
    THEN /\ un.out.doc # NoDoc
         /\ ~un.out.closed
         /\ IsPDFDict(un.out.doc.trailer)
    ELSE un.out.doc = NoDoc /\ un.out.closed

InitUnit ==
    /\ RunIdle
    /\ \/ \E ks \in SUBSET StreamKeys : un = Call("verifyDocument", ks)
       \/ \E h \in FileStarts : un = Call("verifyFileHeader", h)
       \/ \E t \in FileEnds : un = Call("verifyFileTrailer", t)
       \/ \E x \in XrefStarts : un = Call("verifyCrossReferenceTable", x)
       \/ \E i \in Infos : un = Call("verifyDocumentInformationDictionary", i)
       \/ \E a \in IntentArrays : un = Call("verifyOutputIntent", a)
       \/ \E p \in Paths : un = Call("ResolveGraphByPath", p)
       \/ \E h \in Headers : un = Call("GetVersion", h)
       \/ \E b \in CursorData : un = Call("ReadLine", b)
       \/ \E c \in Roots : un = Call("verifyOptionalContent", c)
       \/ \E h \in HexInputs : un = Call("NextToken", h)
       \/ \E w \in WordInputs : un = Call("parseObject", w)
       \/ \E x \in XrefSections : un = Call("parseXRefTable", x)
       \/ \E f \in OpenInputs : un = Call("Open", f)

NextUnit ==
    \/ WalkDict
    \/ CheckHeader
    \/ CheckTrailer
    \/ CheckXref
    \/ CheckInfo
    \/ CheckIntent
    \/ FollowPath
    \/ ReadVersion
    \/ ReadAllLines
    \/ CheckOptional
    \/ LexHex
    \/ ParseObjects
    \/ ParseXref
    \/ OpenFile

SpecUnit == InitUnit /\ [][NextUnit]_vars

(***************************************************************************)
(* The calls that take a whole document: each starts from one of Docs.     *)
(***************************************************************************)
InitDoc ==
    /\ RunIdle
    /\ \/ \E d \in Docs : un = Call("Verify", d)
       \/ \E d \in Docs : un = Call("ResolveGraph", d)
       \/ \E d \in {x \in Docs : ResolveGraph(x, AllKeys).ok} : un = Call("walk", d)

NextDoc ==
    \/ VerifyTwice
    \/ ResolveRun
    \/ WalkPages

SpecDoc == InitDoc /\ [][NextDoc]_vars

====
